---- MODULE Spec2Model ----
(***************************************************************************)
(* Model of the LLM Council orchestration of llm-council-nextjs.           *)
(*                                                                         *)
(*   lib/council.ts    stage1CollectResponses, stage2CollectRankings,      *)
(*                     stage3SynthesizeFinal, parseRankingFromText,        *)
(*                     calculateAggregateRankings, runFullCouncil          *)
(*   api/conversations/[id]/message/stream/route.ts   POST (council mode)  *)
(*   lib/storage.ts    addUserMessage, addAssistantMessage                 *)
(*   lib/roundtable.ts getNextSpeaker                                      *)
(*   lib/discussion/consensus.ts      detectConsensusByHeuristics          *)
(*   lib/discussion/orchestrator.ts   DiscussionOrchestrator               *)
(*                                                                         *)
(* Texts returned by the models are sequences of tokens: the literal       *)
(* marker "FINAL RANKING:", a numbered entry "N. Response X" (a match of   *)
(* /\d+\.\s*Response [A-Z]/), a bare "Response X" (a match of              *)
(* /Response [A-Z]/ that no number and period precede) and filler text.    *)
(* A JavaScript object used as a table (Record<string, T>) is a sequence   *)
(* of entries in key insertion order, which is the order Object.entries    *)
(* yields for keys that are not integer-like (model ids are not).          *)
(* average_rank is kept in hundredths, the unit Math.round(x*100)/100      *)
(* rounds to.                                                              *)
(***************************************************************************)
EXTENDS Integers, Sequences, FiniteSets, TLC

(***************************************************************************)
(* Bounds.                                                                 *)
(***************************************************************************)
MaxCouncil == 2      \* longest participant list, and number of model ids
MaxTextLen == 4      \* longest ranking text, in tokens
MaxRankers == 2      \* most Stage-2 results handed to the aggregation
MaxRankLen == 2      \* longest parsed ranking handed to the aggregation
MaxParticipants == 3 \* longest participant list handed to getNextSpeaker

VARIABLES
    caller,             \* "runFullCouncil" | "stream" | "stage2" | "aggregate"
    pc,                 \* position of the caller
    councilModels,      \* the sanitized participant list (model ids)
    responses1,         \* outcome of each participant's Stage-1 invocation
    stage1Results,      \* Stage1Result[]
    labelToModel,       \* Record<string, string>, as a function
    stage2Results,      \* Stage2Result[]
    aggregateRankings,  \* AggregateRanking[]
    stage3Result,       \* Stage3Result
    returned,           \* has runFullCouncil returned its value
    events,             \* the events sent on the stream, in order
    storedMessages,     \* messages of the stored conversation
    titlePromise,       \* "none" | "pending" | "done": the title generation
    invocations         \* number of model invocations dispatched per stage

councilVars == <<caller, pc, councilModels, responses1, stage1Results, labelToModel,
                 stage2Results, aggregateRankings, stage3Result, returned, events,
                 storedMessages, titlePromise, invocations>>

VARIABLES
    participants,       \* Participant[], the argument of getNextSpeaker
    lastModelId,        \* the last speaker's id, "" when there is none
    nextSpeaker         \* the value getNextSpeaker returned

speakerVars == <<participants, lastModelId, nextSpeaker>>

VARIABLES
    state,              \* DiscussionState of the orchestrator
    agents,             \* the keys of the orchestrator's Map<string, Agent>
    gen,                \* where the generator start() is suspended
    yielded,            \* the events start() has yielded, in order
    prompts,            \* the model invocations start() has started, in order
    steers,             \* the steering messages intervene has queued, in order
    clock,              \* the last value Date.now() returned
    terminateCalls,     \* number of terminate() calls that have returned
    calls,              \* number of intervene, terminate, addMessage, cleanup calls
    consensusResult     \* the value detectConsensusByHeuristics returned

discussionVars == <<state, agents, gen, yielded, prompts, steers, clock,
                    terminateCalls, calls>>

consensusVars == <<consensusResult>>

VARIABLES
    runs,               \* the arguments of two calls of stage2CollectRankings
    rankingMessages     \* the messages each of the two calls sent to the rankers

anonymityVars == <<runs, rankingMessages>>

VARIABLES
    route,              \* where the POST handler of the discussion endpoint is
    activeDiscussions,  \* the orchestrators the registry holds for the conversation id
    conversationFile,   \* the messages of the conversation as stored on disk
    conversation,       \* the messages of the conversation object POST holds
    closing             \* the events POST itself sends after the loop over start()

routeVars == <<route, activeDiscussions, conversationFile, conversation, closing>>

VARIABLES
    request,            \* the councilModels of the request, before sanitizing
    turn,               \* i, the counter of the roundtable loop
    accumulatedTurns,   \* RoundtableTurn[], the turns of the run that succeeded
    turnCalls           \* the calls of runRoundtableTurn, in order

roundtableVars == <<request, turn, accumulatedTurns, turnCalls>>

VARIABLES
    orchestrators       \* the orchestrators created for one conversation id, in order

registryVars == <<orchestrators>>

endpointVars == <<routeVars, roundtableVars, registryVars>>

nonCouncilVars == <<speakerVars, discussionVars, consensusVars, anonymityVars,
                    endpointVars>>

vars == <<councilVars, nonCouncilVars>>

(***************************************************************************)
(* Values.                                                                 *)
(***************************************************************************)
Alphabet == <<"A", "B", "C", "D", "E", "F", "G", "H", "I", "J", "K", "L", "M",
              "N", "O", "P", "Q", "R", "S", "T", "U", "V", "W", "X", "Y", "Z">>

\* a bug: the labels start at "B"
fromCharCode66(i) == Alphabet[i + 2]

\* String.fromCharCode(65 + i), i counted from 0
fromCharCode65(i) == Alphabet[i + 1]

\* `Response ${label}`
ResponseLabel(i) == "Response " \o fromCharCode65(i)

\* the labels a model can write in a ranking text
TextLabels == {ResponseLabel(i) : i \in 0..(MaxCouncil - 1)}

ModelIds == {"model-" \o ToString(i) : i \in 1..MaxCouncil}

\* the outcome of queryModel: { content } or null.  The content of a chat
\* answer is a string, the content of a ranking answer a sequence of tokens.
NullAnswer == [ok |-> FALSE, content |-> ""]
NullRanking == [ok |-> FALSE, content |-> <<>>]
Response(c) == [ok |-> TRUE, content |-> c]

Marker == [kind |-> "marker", label |-> ""]
Filler == [kind |-> "other", label |-> ""]
Numbered(l) == [kind |-> "numbered", label |-> l]
Bare(l) == [kind |-> "bare", label |-> l]

Tokens == {Marker, Filler} \cup {Numbered(l) : l \in TextLabels}
                           \cup {Bare(l) : l \in TextLabels}

SeqsUpTo(S, n) == UNION {[1..k -> S] : k \in 0..n}

NoStage3 == [model |-> "", response |-> ""]

(***************************************************************************)
(* parseRankingFromText                                                    *)
(***************************************************************************)
\* rankingText.includes('FINAL RANKING:')
Includes(text) == \E i \in 1..Len(text) : text[i] = Marker

\* rankingText.split('FINAL RANKING:')
RECURSIVE Split(_)
Split(text) ==
    IF ~Includes(text) THEN <<text>>
    ELSE LET i == CHOOSE j \in 1..Len(text) :
                     text[j] = Marker /\ \A k \in 1..(j - 1) : text[k] # Marker
         IN <<SubSeq(text, 1, i - 1)>> \o Split(SubSeq(text, i + 1, Len(text)))

\* section.match(/\d+\.\s*Response [A-Z]/g): the matched entries, <<>> for null
MatchNumbered(section) == SelectSeq(section, LAMBDA t : t.kind = "numbered")

\* section.match(/Response [A-Z]/g): the matched labels, <<>> for null
MatchResponse(section) ==
    LET hits == SelectSeq(section, LAMBDA t : t.kind \in {"numbered", "bare"})
    IN [i \in 1..Len(hits) |-> hits[i].label]

\* a bug: the whole match "N. Response X" is kept
InnerLabel_WholeMatch(m) == "1. " \o m.label

\* m.match(/Response [A-Z]/)[0] of a numbered entry m
InnerLabel(m) == m.label

parseRankingFromText(rankingText) ==
    IF Includes(rankingText) /\ Len(Split(rankingText)) >= 2
    THEN LET rankingSection == Split(rankingText)[2]
             numberedMatches == MatchNumbered(rankingSection)
         IN IF numberedMatches # <<>>
            THEN LET inner == [i \in 1..Len(numberedMatches) |->
                                  InnerLabel(numberedMatches[i])]
                 IN SelectSeq(inner, LAMBDA m : m # "")
            ELSE MatchResponse(rankingSection)
    ELSE MatchResponse(rankingText)

(***************************************************************************)
(* queryModelsParallel (lib/openrouter.ts): one invocation per task, all   *)
(* awaited, the outcomes returned in a table keyed by model id.  Two tasks *)
(* with the same model id share one slot of the table; pick says which     *)
(* task's outcome the slot ends up holding.                                *)
(***************************************************************************)
Range(s) == {s[i] : i \in 1..Len(s)}

Front(s) == SubSeq(s, 1, Len(s) - 1)

Last(s) == s[Len(s)]

RECURSIVE KeysInOrder(_)
KeysInOrder(s) ==
    IF s = <<>> THEN <<>>
    ELSE LET r == KeysInOrder(Front(s))
         IN IF Last(s) \in Range(r) THEN r ELSE Append(r, Last(s))

SlotChoices(tasks) ==
    {f \in [Range(tasks) -> 1..Len(tasks)] : \A m \in Range(tasks) : tasks[f[m]] = m}

queryModelsParallel(tasks, outcomes, pick) ==
    LET keys == KeysInOrder(tasks)
    IN [k \in 1..Len(keys) |->
           [model |-> keys[k], response |-> outcomes[pick[keys[k]]]]]

(***************************************************************************)
(* stage1CollectResponses                                                  *)
(***************************************************************************)
stage1CollectResponses(models, outcomes, pick) ==
    LET responses == queryModelsParallel(models, outcomes, pick)
        kept == SelectSeq(responses, LAMBDA e : e.response.ok)
    IN [i \in 1..Len(kept) |->
           [model |-> kept[i].model, response |-> kept[i].response.content]]

(***************************************************************************)
(* stage2CollectRankings                                                   *)
(***************************************************************************)
\* labels.forEach((label, i) => labelToModel[`Response ${label}`] = ...)
LabelToModel(results) ==
    LET keys == {ResponseLabel(i - 1) : i \in 1..Len(results)}
        lastOf(l) == CHOOSE i \in 1..Len(results) :
                         /\ ResponseLabel(i - 1) = l
                         /\ \A j \in (i + 1)..Len(results) : ResponseLabel(j - 1) # l
    IN [l \in keys |-> results[lastOf(l)].model]

stage2CollectRankings(results, models, outcomes, pick) ==
    LET responses == queryModelsParallel(models, outcomes, pick)
        kept == SelectSeq(responses, LAMBDA e : e.response.ok)
    IN [rankings |->
            [i \in 1..Len(kept) |->
                [model |-> kept[i].model,
                 ranking |-> kept[i].response.content,
                 parsed_ranking |-> parseRankingFromText(kept[i].response.content)]],
        labelToModel |-> LabelToModel(results)]

(***************************************************************************)
(* stage3SynthesizeFinal                                                   *)
(***************************************************************************)
CHAIRMAN_MODEL == "chairman-model"

SynthesisError == "Error: Unable to generate final synthesis."

AllFailedError == "All models failed to respond. Please try again."

stage3SynthesizeFinal(chairmanOverride, response) ==
    LET effectiveChairman ==
            IF chairmanOverride # "" THEN chairmanOverride ELSE CHAIRMAN_MODEL
    IN IF ~response.ok
       THEN [model |-> effectiveChairman, response |-> SynthesisError]
       ELSE [model |-> effectiveChairman, response |-> response.content]

(***************************************************************************)
(* calculateAggregateRankings                                              *)
(***************************************************************************)
RECURSIVE Sum(_)
Sum(s) == IF s = <<>> THEN 0 ELSE Sum(Front(s)) + Last(s)

\* parsedRanking.forEach((label, index) => ... position = index + 1)
Positions(parsedRanking) ==
    [i \in 1..Len(parsedRanking) |->
        [label |-> parsedRanking[i], position |-> (i - 1) + 1]]

\* every (label, position) pair, in the order the two loops visit them
RECURSIVE Contributions(_)
Contributions(rankings) ==
    IF rankings = <<>> THEN <<>>
    ELSE Contributions(Front(rankings)) \o Positions(Last(rankings).parsed_ranking)

\* modelPositions[modelName].push(position), creating the entry when absent
Push(modelPositions, modelName, position) ==
    IF \E k \in 1..Len(modelPositions) : modelPositions[k].model = modelName
    THEN [k \in 1..Len(modelPositions) |->
             IF modelPositions[k].model = modelName
             THEN [modelPositions[k] EXCEPT !.positions = Append(@, position)]
             ELSE modelPositions[k]]
    ELSE Append(modelPositions, [model |-> modelName, positions |-> <<position>>])

\* a bug: no test that the table knows the label
Resolve_Unchecked(modelPositions, c, l2m) ==
    Push(modelPositions,
         IF c.label \in DOMAIN l2m THEN l2m[c.label] ELSE "undefined",
         c.position)

\* if (label in labelToModel) { ... }
Resolve(modelPositions, c, l2m) ==
    IF c.label \in DOMAIN l2m
    THEN Push(modelPositions, l2m[c.label], c.position)
    ELSE modelPositions

RECURSIVE ModelPositions(_, _)
ModelPositions(contribs, l2m) ==
    IF contribs = <<>> THEN <<>>
    ELSE Resolve(ModelPositions(Front(contribs), l2m), Last(contribs), l2m)

\* a bug: Math.floor in place of Math.round
AverageRank_Floor(positions) == (100 * Sum(positions)) \div Len(positions)

\* Math.round((sum / length) * 100), in hundredths; Math.round rounds half up
AverageRank(positions) ==
    (200 * Sum(positions) + Len(positions)) \div (2 * Len(positions))

\* a bug: a sort that puts an entry before the entries it ties with
RECURSIVE SortByAverageRank_Unstable(_)
SortByAverageRank_Unstable(aggregate) ==
    IF Len(aggregate) <= 1 THEN aggregate
    ELSE LET r == SortByAverageRank_Unstable(Front(aggregate))
             x == Last(aggregate)
             k == Cardinality({i \in 1..Len(r) : r[i].average_rank < x.average_rank})
         IN SubSeq(r, 1, k) \o <<x>> \o SubSeq(r, k + 1, Len(r))

\* aggregate.sort((a, b) => a.average_rank - b.average_rank), a stable sort
RECURSIVE SortByAverageRank(_)
SortByAverageRank(aggregate) ==
    IF Len(aggregate) <= 1 THEN aggregate
    ELSE LET r == SortByAverageRank(Front(aggregate))
             x == Last(aggregate)
             k == Cardinality({i \in 1..Len(r) : r[i].average_rank <= x.average_rank})
         IN SubSeq(r, 1, k) \o <<x>> \o SubSeq(r, k + 1, Len(r))

calculateAggregateRankings(rankings, l2m) ==
    LET modelPositions == ModelPositions(Contributions(rankings), l2m)
        kept == SelectSeq(modelPositions, LAMBDA e : Len(e.positions) > 0)
        aggregate == [k \in 1..Len(kept) |->
                         [model |-> kept[k].model,
                          average_rank |-> AverageRank(kept[k].positions),
                          rankings_count |-> Len(kept[k].positions)]]
    IN SortByAverageRank(aggregate)

(***************************************************************************)
(* The inputs.                                                             *)
(***************************************************************************)
EmptyMap == [l \in {} |-> ""]

NoInvocations == [stage1 |-> 0, stage2 |-> 0, stage3 |-> 0, title |-> 0]

\* the participant lists a caller can pass: non-empty, ids possibly repeated
CouncilLists == SeqsUpTo(ModelIds, MaxCouncil) \ {<<>>}

\* what the invocation of participant i answers in Stage 1
AnswerOf(i) == "answer-" \o ToString(i)

Stage1Outcomes(models) ==
    {o \in [1..Len(models) -> {NullAnswer} \cup {Response(AnswerOf(i)) : i \in 1..Len(models)}] :
        \A i \in 1..Len(models) : o[i].ok => o[i].content = AnswerOf(i)}

\* a well-formed ranking, best first and worst first, and a reply that only
\* mentions one response
RankingTexts ==
    { <<Filler, Marker>> \o [i \in 1..MaxCouncil |-> Numbered(ResponseLabel(i - 1))],
      <<Marker>> \o [i \in 1..MaxCouncil |-> Numbered(ResponseLabel(MaxCouncil - i))],
      <<Filler, Bare(ResponseLabel(0))>> }

Stage2Outcomes(models, texts) ==
    [1..Len(models) -> {NullRanking} \cup {Response(t) : t \in texts}]

ChairmanOverrides == {"", "model-1"}

ChairmanOutcomes == {NullAnswer, Response("synthesis")}

UserMessage == [role |-> "user", content |-> "query"]

AssistantMessage(s1, s2, s3, md) ==
    [role |-> "assistant", stage1 |-> s1, stage2 |-> s2, stage3 |-> s3, metadata |-> md]

Event(type, data) == [type |-> type, data |-> data]

(***************************************************************************)
(* The components a specification does not exercise stay at these values.  *)
(***************************************************************************)
\* undefined, for an optional string
Undefined == ""

NoParticipant == [id |-> "", name |-> ""]

SpeakerIdle ==
    /\ participants = <<>>
    /\ lastModelId = Undefined
    /\ nextSpeaker = NoParticipant

\* completedAt?: number, before it is stamped
NotCompleted == -1

\* the state the constructor builds; id and createdAt are not modelled
InitialState(config) ==
    [config |-> config,
     currentRound |-> 1,
     currentSpeakerIndex |-> 0,
     messages |-> <<>>,
     status |-> "running",
     consensusDetected |-> FALSE,
     userInterventions |-> <<>>,
     completedAt |-> NotCompleted]

NoConfig == [roles |-> <<>>, maxRounds |-> 0, consensusThreshold |-> 0]

NotStarted == [pc |-> "not_started", speakerId |-> Undefined]

NoResult == [detected |-> FALSE, confidence |-> -1, basedOnMessages |-> -1]

DiscussionIdle ==
    /\ state = InitialState(NoConfig)
    /\ agents = {}
    /\ gen = NotStarted
    /\ yielded = <<>>
    /\ prompts = <<>>
    /\ steers = <<>>
    /\ clock = 0
    /\ terminateCalls = 0
    /\ calls = 0

ConsensusIdle ==
    /\ consensusResult = NoResult

AnonymityIdle ==
    /\ runs = <<>>
    /\ rankingMessages = <<>>

RouteIdle ==
    /\ route = "idle"
    /\ activeDiscussions = {}
    /\ conversationFile = <<>>
    /\ conversation = <<>>
    /\ closing = <<>>

\* no request: an optional councilModels that is absent
NoRequest == [supplied |-> FALSE, list |-> <<>>]

RoundtableIdle ==
    /\ request = NoRequest
    /\ turn = 0
    /\ accumulatedTurns = <<>>
    /\ turnCalls = <<>>

RegistryIdle == orchestrators = <<>>

EndpointIdle == RouteIdle /\ RoundtableIdle /\ RegistryIdle

NonCouncilIdle ==
    /\ SpeakerIdle
    /\ DiscussionIdle
    /\ ConsensusIdle
    /\ AnonymityIdle
    /\ EndpointIdle

CouncilIdle ==
    /\ caller = "none"
    /\ pc = "idle"
    /\ councilModels = <<>>
    /\ responses1 = <<>>
    /\ stage1Results = <<>>
    /\ labelToModel = EmptyMap
    /\ stage2Results = <<>>
    /\ aggregateRankings = <<>>
    /\ stage3Result = NoStage3
    /\ returned = FALSE
    /\ events = <<>>
    /\ storedMessages = <<>>
    /\ titlePromise = "none"
    /\ invocations = NoInvocations

(***************************************************************************)
(* runFullCouncil                                                          *)
(***************************************************************************)
\* a bug: the test for an empty Stage 1 is missing
NoModelResponded_Never(results) == FALSE

\* if (stage1Results.length === 0) return { ..., stage3: { model: 'error', ... } }
NoModelResponded(results) == Len(results) = 0

InitCouncil ==
    /\ caller \in {"runFullCouncil", "stream"}
    /\ pc = "start"
    /\ councilModels \in CouncilLists
    /\ responses1 = <<>>
    /\ stage1Results = <<>>
    /\ labelToModel = EmptyMap
    /\ stage2Results = <<>>
    /\ aggregateRankings = <<>>
    /\ stage3Result = NoStage3
    /\ returned = FALSE
    /\ events = <<>>
    /\ storedMessages \in {<<>>, <<UserMessage, AssistantMessage(<<>>, <<>>, NoStage3, EmptyMap)>>}
    /\ titlePromise = "none"
    /\ invocations = NoInvocations
    /\ NonCouncilIdle

\* stage1CollectResponses dispatches its tasks
CouncilStart ==
    /\ caller = "runFullCouncil" /\ pc = "start"
    /\ pc' = "stage1"
    /\ invocations' = [invocations EXCEPT !.stage1 = @ + Len(councilModels)]
    /\ UNCHANGED <<caller, councilModels, responses1, stage1Results, labelToModel,
                   stage2Results, aggregateRankings, stage3Result, returned,
                   events, storedMessages, titlePromise>>
    /\ UNCHANGED nonCouncilVars

\* Stage 1 is back: return the error result, or dispatch Stage 2
CouncilStage1Complete ==
    /\ caller = "runFullCouncil" /\ pc = "stage1"
    /\ \E outcomes \in Stage1Outcomes(councilModels), pick \in SlotChoices(councilModels) :
         LET results == stage1CollectResponses(councilModels, outcomes, pick)
         IN /\ responses1' = outcomes
            /\ stage1Results' = results
            /\ IF NoModelResponded(results)
               THEN /\ stage3Result' = [model |-> "error", response |-> AllFailedError]
                    /\ returned' = TRUE
                    /\ pc' = "done"
                    /\ UNCHANGED invocations
               ELSE /\ invocations' = [invocations EXCEPT !.stage2 = @ + Len(councilModels)]
                    /\ pc' = "stage2"
                    /\ UNCHANGED <<stage3Result, returned>>
    /\ UNCHANGED <<caller, councilModels, labelToModel, stage2Results,
                   aggregateRankings, events, storedMessages, titlePromise>>
    /\ UNCHANGED nonCouncilVars

\* Stage 2 is back: aggregate, dispatch the chairman
CouncilStage2Complete ==
    /\ caller = "runFullCouncil" /\ pc = "stage2"
    /\ \E outcomes \in Stage2Outcomes(councilModels, RankingTexts),
          pick \in SlotChoices(councilModels) :
         LET r == stage2CollectRankings(stage1Results, councilModels, outcomes, pick)
         IN /\ stage2Results' = r.rankings
            /\ labelToModel' = r.labelToModel
            /\ aggregateRankings' = calculateAggregateRankings(r.rankings, r.labelToModel)
    /\ invocations' = [invocations EXCEPT !.stage3 = @ + 1]
    /\ pc' = "stage3"
    /\ UNCHANGED <<caller, councilModels, responses1, stage1Results, stage3Result,
                   returned, events, storedMessages, titlePromise>>
    /\ UNCHANGED nonCouncilVars

\* the chairman is back: return the full result
CouncilStage3Complete ==
    /\ caller = "runFullCouncil" /\ pc = "stage3"
    /\ \E override \in ChairmanOverrides, response \in ChairmanOutcomes :
         stage3Result' = stage3SynthesizeFinal(override, response)
    /\ returned' = TRUE
    /\ pc' = "done"
    /\ UNCHANGED <<caller, councilModels, responses1, stage1Results, labelToModel,
                   stage2Results, aggregateRankings, events, storedMessages,
                   titlePromise, invocations>>
    /\ UNCHANGED nonCouncilVars

(***************************************************************************)
(* POST /api/conversations/[id]/message/stream, mode 'council'             *)
(***************************************************************************)
\* what a call of the conversation store does: it returns, or it throws
\* (the conversation is not found, the file cannot be written)
StoreOutcomes == {"returns", "throws"}

\* a bug: complete is sent after the error event
catchError_ThenComplete(sent) ==
    sent \o <<Event("error", <<>>), Event("complete", <<>>)>>

\* catch (error) { sendEvent('error', ...); controller.close() }
catchError(sent) == Append(sent, Event("error", <<>>))

\* addUserMessage, start the title generation, stage1_start, dispatch Stage 1;
\* when addUserMessage throws, the error event and the end of the stream
StreamStart ==
    /\ caller = "stream" /\ pc = "start"
    /\ \E addUserMessage \in StoreOutcomes :
         IF addUserMessage = "throws"
         THEN /\ events' = catchError(events)
              /\ pc' = "error"
              /\ UNCHANGED <<storedMessages, titlePromise, invocations>>
         ELSE /\ storedMessages' = Append(storedMessages, UserMessage)
              /\ titlePromise' = IF Len(storedMessages) = 0 THEN "pending" ELSE "none"
              /\ events' = Append(events, Event("stage1_start", <<>>))
              /\ invocations' = [invocations EXCEPT
                                    !.stage1 = @ + Len(councilModels),
                                    !.title = @ + (IF Len(storedMessages) = 0
                                                   THEN 1 ELSE 0)]
              /\ pc' = "stage1"
    /\ UNCHANGED <<caller, councilModels, responses1, stage1Results, labelToModel,
                   stage2Results, aggregateRankings, stage3Result, returned>>
    /\ UNCHANGED nonCouncilVars

\* stage1_complete, stage2_start, dispatch Stage 2
StreamStage1Complete ==
    /\ caller = "stream" /\ pc = "stage1"
    /\ \E outcomes \in Stage1Outcomes(councilModels), pick \in SlotChoices(councilModels) :
         LET results == stage1CollectResponses(councilModels, outcomes, pick)
         IN /\ responses1' = outcomes
            /\ stage1Results' = results
            /\ events' = events \o <<Event("stage1_complete", results),
                                      Event("stage2_start", <<>>)>>
    /\ invocations' = [invocations EXCEPT !.stage2 = @ + Len(councilModels)]
    /\ pc' = "stage2"
    /\ UNCHANGED <<caller, councilModels, labelToModel, stage2Results,
                   aggregateRankings, stage3Result, returned, storedMessages,
                   titlePromise>>
    /\ UNCHANGED nonCouncilVars

\* aggregate, stage2_complete, stage3_start, dispatch the chairman
StreamStage2Complete ==
    /\ caller = "stream" /\ pc = "stage2"
    /\ \E outcomes \in Stage2Outcomes(councilModels, RankingTexts),
          pick \in SlotChoices(councilModels) :
         LET r == stage2CollectRankings(stage1Results, councilModels, outcomes, pick)
             aggregate == calculateAggregateRankings(r.rankings, r.labelToModel)
         IN /\ stage2Results' = r.rankings
            /\ labelToModel' = r.labelToModel
            /\ aggregateRankings' = aggregate
            /\ events' = events \o
                   <<Event("stage2_complete",
                           [data |-> r.rankings,
                            metadata |-> [label_to_model |-> r.labelToModel,
                                          aggregate_rankings |-> aggregate]]),
                     Event("stage3_start", <<>>)>>
    /\ invocations' = [invocations EXCEPT !.stage3 = @ + 1]
    /\ pc' = "stage3"
    /\ UNCHANGED <<caller, councilModels, responses1, stage1Results, stage3Result,
                   returned, storedMessages, titlePromise>>
    /\ UNCHANGED nonCouncilVars

\* stage3_complete, addAssistantMessage, the title when it was started, complete;
\* when addAssistantMessage or updateConversationTitle throws, the error event
\* and the end of the stream
StreamStage3Complete ==
    /\ caller = "stream" /\ pc = "stage3"
    /\ \E override \in ChairmanOverrides, response \in ChairmanOutcomes,
          addAssistantMessage \in StoreOutcomes,
          updateConversationTitle \in StoreOutcomes :
         LET result == stage3SynthesizeFinal(override, response)
             sent == Append(events, Event("stage3_complete", result))
             message == AssistantMessage(stage1Results, stage2Results, result,
                                         [label_to_model |-> labelToModel,
                                          aggregate_rankings |-> aggregateRankings])
         IN /\ stage3Result' = result
            /\ IF addAssistantMessage = "throws"
               THEN /\ events' = catchError(sent)
                    /\ pc' = "error"
                    /\ UNCHANGED <<storedMessages, titlePromise>>
               ELSE /\ storedMessages' = Append(storedMessages, message)
                    /\ titlePromise' = IF titlePromise = "pending" THEN "done"
                                       ELSE titlePromise
                    /\ IF titlePromise = "pending" /\ updateConversationTitle = "throws"
                       THEN /\ events' = catchError(sent)
                            /\ pc' = "error"
                       ELSE /\ events' = sent \o
                                   (IF titlePromise = "pending"
                                    THEN <<Event("title_complete", <<>>)>> ELSE <<>>) \o
                                   <<Event("complete", <<>>)>>
                            /\ pc' = "done"
    /\ UNCHANGED <<caller, councilModels, responses1, stage1Results, labelToModel,
                   stage2Results, aggregateRankings, returned, invocations>>
    /\ UNCHANGED nonCouncilVars

NextCouncil ==
    \/ CouncilStart
    \/ CouncilStage1Complete
    \/ CouncilStage2Complete
    \/ CouncilStage3Complete
    \/ StreamStart
    \/ StreamStage1Complete
    \/ StreamStage2Complete
    \/ StreamStage3Complete

Spec == InitCouncil /\ [][NextCouncil]_vars

\* the events of a type the council stream has sent
Streamed(type) == SelectSeq(events, LAMBDA e : e.type = type)

\* the stored messages of a role
StoredOf(role) == SelectSeq(storedMessages, LAMBDA m : m.role = role)

\* the assistant messages stored for this run: the stored conversation
\* alternates user and assistant messages before the run
StoredForRun ==
    Len(StoredOf("assistant")) -
        (Len(StoredOf("user")) - (IF Streamed("stage1_start") # <<>> THEN 1 ELSE 0))

\* C39: the user message is stored before stage1_start; at complete exactly
\* one assistant message is stored for the run, after stage3_complete, with
\* the streamed results of the three stages; a run that ends with an error
\* event has stored no assistant message
C39_StoredMessagesFollowTheStream ==
    caller = "stream" =>
        /\ Streamed("stage1_start") # <<>> =>
              /\ StoredOf("user") # <<>>
              /\ storedMessages[Len(storedMessages) - StoredForRun] = UserMessage
        /\ Streamed("complete") # <<>> =>
              /\ StoredForRun = 1
              /\ Streamed("stage3_complete") # <<>>
              /\ Last(storedMessages).role = "assistant"
              /\ Last(storedMessages).stage1 = Streamed("stage1_complete")[1].data
              /\ Last(storedMessages).stage2 = Streamed("stage2_complete")[1].data.data
              /\ Last(storedMessages).stage3 = Streamed("stage3_complete")[1].data
        /\ Streamed("error") # <<>> => StoredForRun = 0

(***************************************************************************)
(* stage2CollectRankings on its own: one ranker, whose answer ranges over  *)
(* every text of at most MaxTextLen tokens.                                *)
(***************************************************************************)
\* the Stage-1 results of the first n model ids
FirstResults(n) ==
    [i \in 1..n |-> [model |-> "model-" \o ToString(i), response |-> AnswerOf(i)]]

RankerTexts == SeqsUpTo(Tokens, MaxTextLen)

InitRanker ==
    /\ caller = "stage2"
    /\ pc = "stage2"
    /\ councilModels = <<"model-1">>
    /\ \E n \in 1..MaxCouncil :
         /\ stage1Results = FirstResults(n)
         /\ responses1 = [i \in 1..n |-> Response(AnswerOf(i))]
    /\ labelToModel = EmptyMap
    /\ stage2Results = <<>>
    /\ aggregateRankings = <<>>
    /\ stage3Result = NoStage3
    /\ returned = FALSE
    /\ events = <<>>
    /\ storedMessages = <<>>
    /\ titlePromise = "none"
    /\ invocations = [NoInvocations EXCEPT !.stage2 = 1]
    /\ NonCouncilIdle

RankerComplete ==
    /\ caller = "stage2" /\ pc = "stage2"
    /\ \E outcomes \in Stage2Outcomes(councilModels, RankerTexts),
          pick \in SlotChoices(councilModels) :
         LET r == stage2CollectRankings(stage1Results, councilModels, outcomes, pick)
         IN /\ stage2Results' = r.rankings
            /\ labelToModel' = r.labelToModel
    /\ returned' = TRUE
    /\ pc' = "done"
    /\ UNCHANGED <<caller, councilModels, responses1, stage1Results,
                   aggregateRankings, stage3Result, events, storedMessages,
                   titlePromise, invocations>>
    /\ UNCHANGED nonCouncilVars

NextRanker == RankerComplete

SpecRanker == InitRanker /\ [][NextRanker]_vars

(***************************************************************************)
(* calculateAggregateRankings on its own: every list of at most MaxRankers *)
(* Stage-2 results whose parsed rankings have at most MaxRankLen labels.   *)
(***************************************************************************)
\* a ranking text that parses to the given labels
TextOf(labels) == <<Marker>> \o [i \in 1..Len(labels) |-> Numbered(labels[i])]

Stage2ResultLists ==
    {[i \in 1..Len(ps) |->
         [model |-> "model-" \o ToString(i),
          ranking |-> TextOf(ps[i]),
          parsed_ranking |-> parseRankingFromText(TextOf(ps[i]))]] :
       ps \in SeqsUpTo(SeqsUpTo(TextLabels, MaxRankLen), MaxRankers)}

InitAggregate ==
    /\ caller = "aggregate"
    /\ pc = "aggregate"
    /\ councilModels = <<>>
    /\ \E n \in 1..MaxCouncil :
         /\ stage1Results = FirstResults(n)
         /\ responses1 = [i \in 1..n |-> Response(AnswerOf(i))]
         /\ labelToModel = LabelToModel(FirstResults(n))
    /\ stage2Results \in Stage2ResultLists
    /\ aggregateRankings = <<>>
    /\ stage3Result = NoStage3
    /\ returned = FALSE
    /\ events = <<>>
    /\ storedMessages = <<>>
    /\ titlePromise = "none"
    /\ invocations = NoInvocations
    /\ NonCouncilIdle

Aggregate ==
    /\ caller = "aggregate" /\ pc = "aggregate"
    /\ aggregateRankings' = calculateAggregateRankings(stage2Results, labelToModel)
    /\ returned' = TRUE
    /\ pc' = "done"
    /\ UNCHANGED <<caller, councilModels, responses1, stage1Results, labelToModel,
                   stage2Results, stage3Result, events, storedMessages,
                   titlePromise, invocations>>
    /\ UNCHANGED nonCouncilVars

NextAggregate == Aggregate

SpecAggregate == InitAggregate /\ [][NextAggregate]_vars

(***************************************************************************)
(* Properties of the council pipeline (Spec).                              *)
(***************************************************************************)
Stage1Done == pc \in {"stage2", "stage3", "done"} /\ caller \in {"runFullCouncil", "stream"}

Stage2Done == pc \in {"stage3", "done"} /\ invocations.stage2 > 0

\* the participants whose Stage-1 invocation returned a response
Succeeded == {i \in 1..Len(councilModels) : responses1[i].ok}

\* C1: after Stage 1 the results are exactly one entry (model id, response
\* text) for each participant whose invocation returned a response, none for a
\* participant whose invocation failed, and never more than the participants.
C1_ResultPerSucceededParticipant ==
    Stage1Done =>
        /\ \A i \in Succeeded :
              \E k \in 1..Len(stage1Results) :
                  /\ stage1Results[k].model = councilModels[i]
                  /\ stage1Results[k].response = responses1[i].content
        /\ Len(stage1Results) = Cardinality(Succeeded)
        /\ Len(stage1Results) <= Len(councilModels)

AllStage1Failed == Stage1Done /\ Succeeded = {}

\* C2: when every Stage-1 invocation fails, runFullCouncil returns (it does
\* not throw) empty stage1 and stage2 lists and the synthetic error result,
\* and it has dispatched no Stage-2 and no Stage-3 invocation.
C2_AllFailedReturnsErrorResult ==
    (caller = "runFullCouncil" /\ AllStage1Failed) =>
        /\ returned /\ pc = "done"
        /\ stage1Results = <<>>
        /\ stage2Results = <<>>
        /\ stage3Result = [model |-> "error",
                           response |-> "All models failed to respond. Please try again."]
        /\ invocations.stage2 = 0
        /\ invocations.stage3 = 0

C2_Witness ==
    /\ caller = "runFullCouncil" /\ AllStage1Failed
    /\ Len(councilModels) = MaxCouncil
    /\ returned

\* the results the pipeline fabricates instead of a model's answer
IsSyntheticError(result) ==
    result.response \in {"All models failed to respond. Please try again.",
                         "Error: Unable to generate final synthesis."}

Stage3Events == {i \in 1..Len(events) : events[i].type = "stage3_complete"}

\* C3: in a council run of the streaming endpoint with zero Stage-1 results,
\* the Stage-3 result sent in stage3_complete and stored with the assistant
\* message is a synthetic error result.
C3_StreamEmptyStage1GivesErrorResult ==
    (caller = "stream" /\ Stage1Done /\ stage1Results = <<>>) =>
        /\ \A i \in Stage3Events : IsSyntheticError(events[i].data)
        /\ pc = "done" => IsSyntheticError(storedMessages[Len(storedMessages)].stage3)

ExpectedLabels == <<"Response A", "Response B", "Response C", "Response D">>

\* C4: the label map of Stage 2 sends the i-th label "Response A", "Response
\* B", ... to the model of the i-th Stage-1 result, and has exactly one label
\* for each result.
C4_LabelsAreBijection ==
    Stage2Done =>
        /\ DOMAIN labelToModel = {ExpectedLabels[i] : i \in 1..Len(stage1Results)}
        /\ Cardinality(DOMAIN labelToModel) = Len(stage1Results)
        /\ \A i \in 1..Len(stage1Results) :
              labelToModel[ExpectedLabels[i]] = stage1Results[i].model

C4_Witness ==
    /\ Stage2Done
    /\ Len(stage1Results) = MaxCouncil
    /\ labelToModel[ExpectedLabels[1]] # labelToModel[ExpectedLabels[2]]

(***************************************************************************)
(* Properties of calculateAggregateRankings (SpecAggregate).               *)
(***************************************************************************)
AggregateDone == caller = "aggregate" /\ pc = "done"

Stage1Models == {stage1Results[i].model : i \in 1..Len(stage1Results)}

\* <<r, i>>: the i-th label (from 1) of the parsed ranking of the r-th result
Slots ==
    {<<r, i>> : r \in 1..Len(stage2Results), i \in 1..MaxRankLen + 1} \cap
    {s \in (1..Len(stage2Results)) \X (1..MaxRankLen + 1) :
        s[2] <= Len(stage2Results[s[1]].parsed_ranking)}

LabelAt(s) == stage2Results[s[1]].parsed_ranking[s[2]]

KnownSlots == {s \in Slots : LabelAt(s) \in DOMAIN labelToModel}

\* the places where the rankings name model m
SlotsOf(m) == {s \in KnownSlots : labelToModel[LabelAt(s)] = m}

RECURSIVE SumOfPositions(_)
SumOfPositions(S) ==
    IF S = {} THEN 0
    ELSE LET s == CHOOSE t \in S : TRUE IN s[2] + SumOfPositions(S \ {s})

EntriesOf(m) == {k \in 1..Len(aggregateRankings) : aggregateRankings[k].model = m}

\* C5: every model of the aggregate is a value of the label map, hence the
\* model of a Stage-1 result, and the labels the map does not know
\* contribute nothing: the counts add up to the number of known labels.
C5_AggregateModelsAreStage1Models ==
    AggregateDone =>
        /\ \A k \in 1..Len(aggregateRankings) :
              /\ aggregateRankings[k].model \in
                     {labelToModel[l] : l \in DOMAIN labelToModel}
              /\ aggregateRankings[k].model \in Stage1Models
        /\ Sum([k \in 1..Len(aggregateRankings) |->
                   aggregateRankings[k].rankings_count]) = Cardinality(KnownSlots)

C5_Witness ==
    /\ AggregateDone
    /\ KnownSlots # Slots
    /\ aggregateRankings # <<>>

\* C6: rankings_count of a model is the number of Stage-2 results whose
\* parsed ranking includes the model's label, also when a parsed ranking
\* names the label more than once.
C6_CountIsNumberOfRankings ==
    AggregateDone =>
        \A k \in 1..Len(aggregateRankings) :
            aggregateRankings[k].rankings_count =
                Cardinality({s[1] : s \in SlotsOf(aggregateRankings[k].model)})

\* C9 as stated: a label at 0-based index i contributes position i+1, the
\* average_rank of a model is the exact mean of its positions, and a model
\* without a contribution is absent.
C9_AverageIsExactMean ==
    AggregateDone =>
        \A m \in Stage1Models :
            IF SlotsOf(m) = {} THEN EntriesOf(m) = {}
            ELSE /\ Cardinality(EntriesOf(m)) = 1
                 /\ \A k \in EntriesOf(m) :
                       aggregateRankings[k].average_rank * Cardinality(SlotsOf(m))
                           = 100 * SumOfPositions(SlotsOf(m))

\* C9 as amended: the average_rank is the mean of the positions rounded to
\* two decimals (half up); positions and absence as stated.
C9_AverageIsRoundedMean ==
    AggregateDone =>
        \A m \in Stage1Models :
            IF SlotsOf(m) = {} THEN EntriesOf(m) = {}
            ELSE /\ Cardinality(EntriesOf(m)) = 1
                 /\ \A k \in EntriesOf(m) :
                       LET n == Cardinality(SlotsOf(m))
                           d == 2 * n * aggregateRankings[k].average_rank
                                  - 200 * SumOfPositions(SlotsOf(m))
                       IN -n < d /\ d <= n

C9_Witness ==
    /\ AggregateDone
    /\ \E m \in Stage1Models :
          /\ SlotsOf(m) # {}
          /\ (100 * SumOfPositions(SlotsOf(m))) % Cardinality(SlotsOf(m)) # 0
    /\ \E m \in Stage1Models : SlotsOf(m) = {}

SortedByAverageRank ==
    \A j, k \in 1..Len(aggregateRankings) :
        j < k => aggregateRankings[j].average_rank <= aggregateRankings[k].average_rank

Ties ==
    {p \in (1..Len(aggregateRankings)) \X (1..Len(aggregateRankings)) :
        /\ p[1] < p[2]
        /\ aggregateRankings[p[1]].average_rank = aggregateRankings[p[2]].average_rank}

\* position of model m among the Stage-1 results (the registration order)
RegistrationIndex(m) == CHOOSE i \in 1..Len(stage1Results) : stage1Results[i].model = m

Precedes(s, t) == s[1] < t[1] \/ (s[1] = t[1] /\ s[2] < t[2])

\* the first place where the rankings name model m
FirstMention(m) ==
    CHOOSE s \in SlotsOf(m) : \A t \in SlotsOf(m) : s = t \/ Precedes(s, t)

\* C10 as stated: sorted ascending by average position, ties in
\* model-registration order.
C10_TiesInRegistrationOrder ==
    AggregateDone =>
        /\ SortedByAverageRank
        /\ \A p \in Ties :
              RegistrationIndex(aggregateRankings[p[1]].model)
                  < RegistrationIndex(aggregateRankings[p[2]].model)

\* C10 as amended: sorted ascending by average_rank, ties in the order in
\* which the rankings first mention the models.
C10_TiesInFirstMentionOrder ==
    AggregateDone =>
        /\ SortedByAverageRank
        /\ \A p \in Ties :
              Precedes(FirstMention(aggregateRankings[p[1]].model),
                       FirstMention(aggregateRankings[p[2]].model))

C10_Witness ==
    /\ AggregateDone
    /\ \E p \in Ties :
          RegistrationIndex(aggregateRankings[p[1]].model)
              > RegistrationIndex(aggregateRankings[p[2]].model)

(***************************************************************************)
(* Properties of the parsed rankings of Stage 2 (SpecRanker).              *)
(***************************************************************************)
RankerDone == caller = "stage2" /\ pc = "done"

LetterLabels == {"Response " \o Alphabet[j] : j \in 1..26}

\* the labels a text mentions, numbered or not
Mentioned(text) ==
    {text[j].label : j \in {i \in 1..Len(text) : text[i].kind \in {"numbered", "bare"}}}

\* C7 as stated: every label of a parsed ranking is a label of the run's
\* label map.
C7_ParsedLabelsAreKnown ==
    RankerDone =>
        \A r \in 1..Len(stage2Results) :
            \A i \in 1..Len(stage2Results[r].parsed_ranking) :
                stage2Results[r].parsed_ranking[i] \in DOMAIN labelToModel

\* C7 as amended: every label of a parsed ranking is a "Response X" with X an
\* upper-case letter that the ranking text mentions; it is a label of the
\* label map when the text mentions labels of the map only.
C7_ParsedLabelsComeFromText ==
    RankerDone =>
        \A r \in 1..Len(stage2Results) :
            \A i \in 1..Len(stage2Results[r].parsed_ranking) :
                LET l == stage2Results[r].parsed_ranking[i]
                IN /\ l \in LetterLabels
                   /\ l \in Mentioned(stage2Results[r].ranking)
                   /\ Mentioned(stage2Results[r].ranking) \subseteq DOMAIN labelToModel
                        => l \in DOMAIN labelToModel

C7_Witness ==
    /\ RankerDone
    /\ \E r \in 1..Len(stage2Results) :
          /\ \E i \in 1..Len(stage2Results[r].parsed_ranking) :
                stage2Results[r].parsed_ranking[i] \notin DOMAIN labelToModel
          /\ \E i \in 1..Len(stage2Results[r].parsed_ranking) :
                stage2Results[r].parsed_ranking[i] \in DOMAIN labelToModel

MarkerPlaces(text) == {i \in 1..Len(text) : text[i].kind = "marker"}

\* the text after the first marker
AfterMarker(text) ==
    LET first == CHOOSE i \in MarkerPlaces(text) : \A j \in MarkerPlaces(text) : i <= j
    IN SubSeq(text, first + 1, Len(text))

\* the labels of the tokens of the given kinds, in order of occurrence
RECURSIVE LabelsOf(_, _)
LabelsOf(text, kinds) ==
    IF text = <<>> THEN <<>>
    ELSE IF Head(text).kind \in kinds
         THEN <<Head(text).label>> \o LabelsOf(Tail(text), kinds)
         ELSE LabelsOf(Tail(text), kinds)

\* what the three cases of the degradation order give for a text
DegradedRanking(text) ==
    IF MarkerPlaces(text) = {}
    THEN LabelsOf(text, {"numbered", "bare"})
    ELSE IF LabelsOf(AfterMarker(text), {"numbered"}) # <<>>
         THEN LabelsOf(AfterMarker(text), {"numbered"})
         ELSE LabelsOf(AfterMarker(text), {"bare"})

\* C8: with the marker and a numbered entry after it the parsed ranking is
\* the numbered labels after the marker; with the marker and no numbered
\* entry after it, the "Response X" after the marker; with no marker, the
\* "Response X" of the whole text.
C8_DegradationOrder ==
    RankerDone =>
        \A r \in 1..Len(stage2Results) :
            stage2Results[r].parsed_ranking = DegradedRanking(stage2Results[r].ranking)

\* the same for the texts in which the marker occurs at most once
SingleMarkerDegradationOrder ==
    RankerDone =>
        \A r \in 1..Len(stage2Results) :
            Cardinality(MarkerPlaces(stage2Results[r].ranking)) <= 1 =>
                stage2Results[r].parsed_ranking = DegradedRanking(stage2Results[r].ranking)

\* the text after the last marker
AfterLastMarker(text) ==
    LET last == CHOOSE i \in MarkerPlaces(text) : \A j \in MarkerPlaces(text) : j <= i
    IN SubSeq(text, last + 1, Len(text))

\* C31: for a text with the marker, once or more than once, every numbered
\* entry "N. Response X" that comes after the marker (after its last
\* occurrence) has its label in the parsed ranking
C31_EntriesAfterRepeatedMarker ==
    RankerDone =>
        \A r \in 1..Len(stage2Results) :
            LET text == stage2Results[r].ranking
            IN MarkerPlaces(text) # {} =>
                  \A l \in Range(LabelsOf(AfterLastMarker(text), {"numbered"})) :
                      l \in Range(stage2Results[r].parsed_ranking)

(***************************************************************************)
(* lib/roundtable.ts getNextSpeaker on its own: every list of at most      *)
(* MaxParticipants participants with distinct ids, and every last speaker. *)
(***************************************************************************)
ParticipantIds == {"model-" \o ToString(i) : i \in 1..(MaxParticipants + 1)}

\* { id, name, systemPrompt }; the name is the part of the id after its prefix
Participant(id) == [id |-> id, name |-> "name of " \o id]

ParticipantLists ==
    {[i \in 1..Len(ids) |-> Participant(ids[i])] :
        ids \in {l \in SeqsUpTo(ParticipantIds, MaxParticipants) :
                    /\ Len(l) > 0
                    /\ \A i, j \in 1..Len(l) : l[i] = l[j] => i = j}}

\* participants.findIndex((p) => p.id === id), counted from 0, -1 when absent
findIndex(ps, id) ==
    IF \E i \in 1..Len(ps) : ps[i].id = id
    THEN (CHOOSE i \in 1..Len(ps) :
             ps[i].id = id /\ \A j \in 1..(i - 1) : ps[j].id # id) - 1
    ELSE -1

\* a bug: the index does not wrap, the last participant follows itself
getNextSpeaker_NoWrap(ps, last) ==
    IF last = Undefined
    THEN ps[1]
    ELSE LET currentIndex == findIndex(ps, last)
             nextIndex == IF currentIndex + 1 < Len(ps) THEN currentIndex + 1
                          ELSE currentIndex
         IN ps[nextIndex + 1]

getNextSpeaker(ps, last) ==
    IF last = Undefined
    THEN ps[1]
    ELSE LET currentIndex == findIndex(ps, last)
             nextIndex == (currentIndex + 1) % Len(ps)
         IN ps[nextIndex + 1]

InitSpeaker ==
    /\ CouncilIdle
    /\ DiscussionIdle
    /\ ConsensusIdle
    /\ AnonymityIdle
    /\ EndpointIdle
    /\ participants \in ParticipantLists
    /\ lastModelId \in ParticipantIds \cup {Undefined}
    /\ nextSpeaker = NoParticipant

SpeakerNext ==
    /\ nextSpeaker = NoParticipant
    /\ nextSpeaker' = getNextSpeaker(participants, lastModelId)
    /\ UNCHANGED <<councilVars, discussionVars, consensusVars, anonymityVars,
                   endpointVars, participants, lastModelId>>

NextSpeaker == SpeakerNext

SpecSpeaker == InitSpeaker /\ [][NextSpeaker]_vars

SpeakerDone == nextSpeaker # NoParticipant

\* the position of the last speaker in the list, counted from 1; 0 when absent
PositionOfLast ==
    IF \E i \in 1..Len(participants) : participants[i].id = lastModelId
    THEN CHOOSE i \in 1..Len(participants) : participants[i].id = lastModelId
    ELSE 0

\* C11: over a list of participants with distinct ids, getNextSpeaker returns
\* the first participant when there is no last speaker, and otherwise, the
\* last speaker being at position i of n, the participant at position
\* (i + 1) mod n (positions counted from 0)
C11_RoundRobin ==
    SpeakerDone =>
        /\ lastModelId = Undefined => nextSpeaker = participants[1]
        /\ PositionOfLast > 0 =>
              nextSpeaker = participants[(PositionOfLast % Len(participants)) + 1]

\* the last participant of a list of more than one spoke last: the turn wraps
C11_Witness ==
    /\ SpeakerDone
    /\ Len(participants) > 1
    /\ PositionOfLast = Len(participants)
    /\ nextSpeaker = participants[1]

(***************************************************************************)
(* lib/discussion/consensus.ts detectConsensusByHeuristics.                *)
(*                                                                         *)
(* The content of a message is abstracted to what the function reads: its  *)
(* length, the phrases it contains (each phrase matches the patterns       *)
(* listed in PatternsIn) and its last sentence, trimmed and in lower case  *)
(* ("" when the content has no sentence).  The score is counted in halves, *)
(* confidence and threshold in hundredths: 0.7 is 70.                      *)
(***************************************************************************)
MaxMessages == 6     \* longest message list

PatternsIn ==
    ("I agree with" :> {"/agree/i", "/I agree with/"}) @@
    ("sound" :> {"/sound/i"}) @@
    ("however" :> {"/however/i"}) @@
    ("build on your point" :> {"/build on.*point/i"})

Content(length, phrases, conclusion) ==
    [length |-> length, phrases |-> phrases, conclusion |-> conclusion]

Agreeing == Content(40, {"I agree with"}, "let us go ahead.")
Sound == Content(400, {"sound"}, "the plan works.")
Neutral == Content(400, {}, "more data is needed.")
However == Content(400, {"however"}, "the plan works.")
Objection == Content(40, {"however", "build on your point"}, "the cost is too high.")

Contents == {Agreeing, Sound, Neutral, However, Objection}

\* a DiscussionMessage; id, round, names and timestamp are not modelled
DiscussionMessage(speakerId, content) == [speakerId |-> speakerId, content |-> content]

\* pattern.test(content)
test(pattern, content) == \E ph \in content.phrases : pattern \in PatternsIn[ph]

affirmativePatterns ==
    {"/agree/i", "/makes sense/i", "/good point/i", "/concur/i", "/seems right/i",
     "/reasonable/i", "/sound/i", "/valid/i", "/well said/i", "/exactly/i",
     "/precisely/i"}

disagreementPatterns ==
    {"/disagree/i", "/however/i", "/but/i", "/on the other hand/i",
     "/i think.*wrong/i", "/not quite/i", "/problem/i", "/issue/i", "/concern/i",
     "/flaw/i"}

agreementPatterns == {"/I agree with/", "/build on.*point/i"}

\* messages.slice(-n)
SliceLast(messages, n) ==
    IF Len(messages) <= n THEN messages
    ELSE SubSeq(messages, Len(messages) - n + 1, Len(messages))

\* recentMessages.filter(m => patterns.some(p => p.test(m.content))).length
CountMatching(recent, patterns) ==
    Cardinality({i \in 1..Len(recent) : \E p \in patterns : test(p, recent[i].content)})

avgLengthBelow150(recent) ==
    Sum([i \in 1..Len(recent) |-> recent[i].content.length]) < 150 * Len(recent)

uniqueConclusions(recent) == {recent[i].content.conclusion : i \in 1..Len(recent)}

\* a bug: the explicit agreement statements are not scored
Score_NoExplicitAgreement(recent) ==
    LET affirmativeCount == CountMatching(recent, affirmativePatterns)
        disagreementCount == CountMatching(recent, disagreementPatterns)
    IN (IF avgLengthBelow150(recent) THEN 2 ELSE 0)
       + (IF affirmativeCount >= 2 THEN 2 ELSE 0)
       + (IF affirmativeCount >= 3 THEN 1 ELSE 0)
       + (IF disagreementCount <= 1 THEN 2 ELSE 0)
       + (IF disagreementCount = 0 THEN 1 ELSE 0)
       + (IF 2 * Cardinality(uniqueConclusions(recent)) <= Len(recent) THEN 2 ELSE 0)

\* the score, in halves
Score(recent) ==
    LET affirmativeCount == CountMatching(recent, affirmativePatterns)
        disagreementCount == CountMatching(recent, disagreementPatterns)
        explicitAgreement == CountMatching(recent, agreementPatterns) > 0
    IN (IF avgLengthBelow150(recent) THEN 2 ELSE 0)
       + (IF affirmativeCount >= 2 THEN 2 ELSE 0)
       + (IF affirmativeCount >= 3 THEN 1 ELSE 0)
       + (IF disagreementCount <= 1 THEN 2 ELSE 0)
       + (IF disagreementCount = 0 THEN 1 ELSE 0)
       + (IF 2 * Cardinality(uniqueConclusions(recent)) <= Len(recent) THEN 2 ELSE 0)
       + (IF explicitAgreement THEN 2 ELSE 0)

\* const maxScore = 5
maxScore == 5

\* score / maxScore, in hundredths
Confidence(recent) == (Score(recent) * 100) \div (2 * maxScore)

detectConsensusByHeuristics(messages, threshold) ==
    IF Len(messages) < 4
    THEN [detected |-> FALSE, confidence |-> 0, basedOnMessages |-> 0]
    ELSE LET recentMessages == SliceLast(messages, 6)
             confidence == Confidence(recentMessages)
         IN [detected |-> confidence >= threshold,
             confidence |-> confidence,
             basedOnMessages |-> Len(recentMessages)]

\* consensusThreshold || 0.7, and the default the type documents
Thresholds == {70, 85}

MessageLists == SeqsUpTo({DiscussionMessage("role-1", c) : c \in Contents}, MaxMessages)

InitConsensus ==
    /\ CouncilIdle
    /\ SpeakerIdle
    /\ AnonymityIdle
    /\ EndpointIdle
    /\ \E messages \in MessageLists, threshold \in Thresholds :
         state = [InitialState([NoConfig EXCEPT !.consensusThreshold = threshold])
                     EXCEPT !.messages = messages]
    /\ agents = {}
    /\ gen = NotStarted
    /\ yielded = <<>>
    /\ prompts = <<>>
    /\ steers = <<>>
    /\ clock = 0
    /\ terminateCalls = 0
    /\ calls = 0
    /\ consensusResult = NoResult

DetectConsensus ==
    /\ consensusResult = NoResult
    /\ consensusResult' =
           detectConsensusByHeuristics(state.messages, state.config.consensusThreshold)
    /\ UNCHANGED <<councilVars, speakerVars, discussionVars, anonymityVars, endpointVars>>

NextConsensus == DetectConsensus

SpecConsensus == InitConsensus /\ [][NextConsensus]_vars

(***************************************************************************)
(* Properties of detectConsensusByHeuristics (SpecConsensus).              *)
(***************************************************************************)
ConsensusDone == consensusResult # NoResult

\* the messages the function scores
Window == SliceLast(state.messages, 6)

AffirmativeCount == CountMatching(Window, affirmativePatterns)

DisagreementCount == CountMatching(Window, disagreementPatterns)

Convergent == 2 * Cardinality(uniqueConclusions(Window)) <= Len(Window)

ExplicitAgreement == CountMatching(Window, agreementPatterns) > 0

\* C16: the confidence lies in [0,1], that is, the score never exceeds 5
\* (10 halves), and detected is true exactly when confidence >= threshold
C16_ConfidenceInUnitInterval ==
    ConsensusDone =>
        /\ consensusResult.confidence >= 0
        /\ consensusResult.confidence <= 100
        /\ Len(state.messages) >= 4 => Score(Window) <= 2 * maxScore
        /\ consensusResult.detected <=>
              consensusResult.confidence >= state.config.consensusThreshold

MaxRoles == 2           \* longest role list
MaxRounds == 2          \* largest maxRounds
MaxCalls == 2           \* most calls of intervene, terminate, addMessage, cleanup
MaxFailures == 1        \* most model invocations that fail

Role(i) == [id |-> "role-" \o ToString(i)]

RoleLists == {[i \in 1..n |-> Role(i)] : n \in 1..MaxRoles}

Configs ==
    {[roles |-> r, maxRounds |-> m, consensusThreshold |-> 70] :
        r \in RoleLists, m \in 0..MaxRounds}

InterventionTypes == {"redirect", "terminate"}

\* what addMessage is given
AddedMessages == {DiscussionMessage("role-1", Agreeing)}

DiscussionEvent(type, round, speakerId, reason, error) ==
    [type |-> type, round |-> round, speakerId |-> speakerId, reason |-> reason,
     error |-> error]

\* Date.now(), read after it last returned c
Now(c) == {c, c + 1}

Suspended(at, speakerId) == [pc |-> at, speakerId |-> speakerId]

\* this.agents = new Map(); initializeAgents sets one agent per role id
initializeAgents(roles) == {roles[i].id : i \in 1..Len(roles)}

checkConsensus(st) ==
    IF Len(st.messages) < 6 THEN FALSE
    ELSE detectConsensusByHeuristics(st.messages, st.config.consensusThreshold).detected

\* the loop of start(), from the test of the while to the next yield
LoopHead(st, ag, now) ==
    IF st.status # "running"
    THEN [state |-> st, gen |-> Suspended("done", Undefined), events |-> <<>>]
    ELSE IF st.currentRound > st.config.maxRounds
    THEN [state |-> [st EXCEPT !.status = "completed", !.completedAt = now],
          gen |-> Suspended("discussion_complete", Undefined),
          events |-> <<DiscussionEvent("discussion_complete", 0, Undefined,
                                       "max_rounds", "")>>]
    ELSE IF checkConsensus(st)
    THEN [state |-> [st EXCEPT !.consensusDetected = TRUE, !.status = "completed",
                               !.completedAt = now],
          gen |-> Suspended("discussion_complete", Undefined),
          events |-> <<DiscussionEvent("discussion_complete", 0, Undefined,
                                       "consensus", "")>>]
    ELSE LET currentRole == st.config.roles[st.currentSpeakerIndex + 1]
         IN IF currentRole.id \notin ag
            THEN [state |-> st,
                  gen |-> Suspended("agent_not_found", Undefined),
                  events |-> <<DiscussionEvent("error", 0, Undefined, "",
                                               "Agent not found")>>]
            ELSE [state |-> st,
                  gen |-> Suspended("round_start", currentRole.id),
                  events |-> <<DiscussionEvent("round_start", st.currentRound,
                                               currentRole.id, "", "")>>]

\* a bug: the round is counted before the yield of round_complete as well
AfterTurn_DoubleIncrement(st, ag, now) ==
    LET next == (st.currentSpeakerIndex + 1) % Len(st.config.roles)
        moved == [st EXCEPT !.currentSpeakerIndex = next]
    IN IF next = 0
       THEN [state |-> [moved EXCEPT !.currentRound = @ + 1],
             gen |-> Suspended("round_complete", Undefined),
             events |-> <<DiscussionEvent("round_complete", st.currentRound,
                                          Undefined, "", "")>>]
       ELSE LoopHead(moved, ag, now)

\* a bug: the round is completed after every turn
AfterTurn_EveryTurn(st, ag, now) ==
    LET next == (st.currentSpeakerIndex + 1) % Len(st.config.roles)
        moved == [st EXCEPT !.currentSpeakerIndex = next]
    IN [state |-> moved,
        gen |-> Suspended("round_complete", Undefined),
        events |-> <<DiscussionEvent("round_complete", st.currentRound,
                                     Undefined, "", "")>>]

\* start() after the invocation of a turn: the next speaker, round_complete
\* when the index is back at 0, else the next iteration of the loop
AfterTurn(st, ag, now) ==
    LET next == (st.currentSpeakerIndex + 1) % Len(st.config.roles)
        moved == [st EXCEPT !.currentSpeakerIndex = next]
    IN IF next = 0
       THEN [state |-> moved,
             gen |-> Suspended("round_complete", Undefined),
             events |-> <<DiscussionEvent("round_complete", st.currentRound,
                                          Undefined, "", "")>>]
       ELSE LoopHead(moved, ag, now)

Failures == Cardinality({i \in 1..Len(yielded) : yielded[i].error = "invocation failed"})

InitDiscussion ==
    /\ CouncilIdle
    /\ SpeakerIdle
    /\ ConsensusIdle
    /\ AnonymityIdle
    /\ EndpointIdle
    /\ \E config \in Configs :
         /\ state = InitialState(config)
         /\ agents = initializeAgents(config.roles)
    /\ gen = NotStarted
    /\ yielded = <<>>
    /\ prompts = <<>>
    /\ steers = <<>>
    /\ clock = 0
    /\ terminateCalls = 0
    /\ calls = 0

\* the generator runs to its next suspension and leaves the result r
Runs(r, now) ==
    /\ state' = r.state
    /\ gen' = r.gen
    /\ yielded' = yielded \o r.events
    /\ clock' = IF r.state.status # state.status THEN now ELSE clock

\* the first next(): yield discussion_start
PullFirst ==
    /\ gen.pc = "not_started"
    /\ gen' = Suspended("discussion_start", Undefined)
    /\ yielded' = Append(yielded, DiscussionEvent("discussion_start", 0, Undefined, "", ""))
    /\ UNCHANGED <<state, agents, prompts, steers, clock, terminateCalls, calls>>
    /\ UNCHANGED <<councilVars, speakerVars, consensusVars, anonymityVars, endpointVars>>

\* next() after discussion_start: the first iteration of the loop
PullAfterDiscussionStart ==
    /\ gen.pc = "discussion_start"
    /\ \E now \in Now(clock) : Runs(LoopHead(state, agents, now), now)
    /\ UNCHANGED <<agents, prompts, steers, terminateCalls, calls>>
    /\ UNCHANGED <<councilVars, speakerVars, consensusVars, anonymityVars, endpointVars>>

\* an invocation start() has started; settled once it has returned or failed
Invocation(speakerId, round) ==
    [speakerId |-> speakerId, round |-> round, settled |-> FALSE]

\* the invocation started last returns or fails
Settle(ps) == [ps EXCEPT ![Len(ps)].settled = TRUE]

\* a bug: the invocation is not awaited, start() goes on to the next turn
PullAfterRoundStart_NoAwait ==
    /\ gen.pc = "round_start"
    /\ prompts' = Append(prompts, Invocation(gen.speakerId, state.currentRound))
    /\ \E now \in Now(clock) : Runs(AfterTurn(state, agents, now), now)
    /\ UNCHANGED <<agents, steers, terminateCalls, calls>>
    /\ UNCHANGED <<councilVars, speakerVars, consensusVars, anonymityVars, endpointVars>>

\* next() after round_start: build the history, subscribe, agent.prompt(history);
\* the text of the history is not modelled
PullAfterRoundStart ==
    /\ gen.pc = "round_start"
    /\ prompts' = Append(prompts, Invocation(gen.speakerId, state.currentRound))
    /\ gen' = Suspended("prompt", gen.speakerId)
    /\ UNCHANGED <<state, agents, yielded, steers, clock, terminateCalls, calls>>
    /\ UNCHANGED <<councilVars, speakerVars, consensusVars, anonymityVars, endpointVars>>

\* the invocation returns: the turn ends
PromptReturns ==
    /\ gen.pc = "prompt"
    /\ prompts' = Settle(prompts)
    /\ \E now \in Now(clock) : Runs(AfterTurn(state, agents, now), now)
    /\ UNCHANGED <<agents, steers, terminateCalls, calls>>
    /\ UNCHANGED <<councilVars, speakerVars, consensusVars, anonymityVars, endpointVars>>

\* the invocation fails: yield error
PromptFails ==
    /\ gen.pc = "prompt"
    /\ Failures < MaxFailures
    /\ gen' = Suspended("error", gen.speakerId)
    /\ prompts' = Settle(prompts)
    /\ yielded' = Append(yielded, DiscussionEvent("error", 0, Undefined, "",
                                                   "invocation failed"))
    /\ UNCHANGED <<state, agents, steers, clock, terminateCalls, calls>>
    /\ UNCHANGED <<councilVars, speakerVars, consensusVars, anonymityVars, endpointVars>>

\* a bug: the role whose invocation failed is given the turn again
PullAfterError_Retry ==
    /\ gen.pc = "error"
    /\ \E now \in Now(clock) : Runs(LoopHead(state, agents, now), now)
    /\ UNCHANGED <<agents, prompts, steers, terminateCalls, calls>>
    /\ UNCHANGED <<councilVars, speakerVars, consensusVars, anonymityVars, endpointVars>>

\* next() after the error of a failed invocation: the turn ends
PullAfterError ==
    /\ gen.pc = "error"
    /\ \E now \in Now(clock) : Runs(AfterTurn(state, agents, now), now)
    /\ UNCHANGED <<agents, prompts, steers, terminateCalls, calls>>
    /\ UNCHANGED <<councilVars, speakerVars, consensusVars, anonymityVars, endpointVars>>

\* a bug: the round is not incremented after round_complete
PullAfterRoundComplete_NoIncrement ==
    /\ gen.pc = "round_complete"
    /\ \E now \in Now(clock) : Runs(LoopHead(state, agents, now), now)
    /\ UNCHANGED <<agents, prompts, steers, terminateCalls, calls>>
    /\ UNCHANGED <<councilVars, speakerVars, consensusVars, anonymityVars, endpointVars>>

\* next() after round_complete: currentRound++, the next iteration
PullAfterRoundComplete ==
    /\ gen.pc = "round_complete"
    /\ \E now \in Now(clock) :
         Runs(LoopHead([state EXCEPT !.currentRound = @ + 1], agents, now), now)
    /\ UNCHANGED <<agents, prompts, steers, terminateCalls, calls>>
    /\ UNCHANGED <<councilVars, speakerVars, consensusVars, anonymityVars, endpointVars>>

\* a bug: continue instead of break, the loop goes on
PullAfterBreak_Continue ==
    /\ gen.pc \in {"discussion_complete", "agent_not_found"}
    /\ \E now \in Now(clock) : Runs(LoopHead(state, agents, now), now)
    /\ UNCHANGED <<agents, prompts, steers, terminateCalls, calls>>
    /\ UNCHANGED <<councilVars, speakerVars, consensusVars, anonymityVars, endpointVars>>

\* next() after discussion_complete or after the missing-agent error: break
PullAfterBreak ==
    /\ gen.pc \in {"discussion_complete", "agent_not_found"}
    /\ gen' = Suspended("done", Undefined)
    /\ UNCHANGED <<state, agents, yielded, prompts, steers, clock, terminateCalls, calls>>
    /\ UNCHANGED <<councilVars, speakerVars, consensusVars, anonymityVars, endpointVars>>

interventionTypeText(type) ==
    CASE type = "redirect" -> "Discussion Moderator"
      [] type = "correction" -> "Fact Checker"
      [] type = "deep_dive" -> "Discussion Moderator"
      [] type = "terminate" -> "System"

\* a bug: insertedAt is the index of the intervention, not of the message
UserIntervention_OwnIndex(type, content, st) ==
    [type |-> type, content |-> content, insertedAt |-> Len(st.userInterventions)]

\* the UserIntervention intervene builds; id and timestamp are not modelled
UserIntervention(type, content, st) ==
    [type |-> type, content |-> content, insertedAt |-> Len(st.messages)]

\* what intervene(type, content) does to the orchestrator
intervene(type, content) ==
    LET intervention == UserIntervention(type, content, state)
        currentRole == state.config.roles[state.currentSpeakerIndex + 1]
    IN /\ state' = [state EXCEPT !.userInterventions = Append(@, intervention)]
       /\ steers' = IF currentRole.id \in agents
                    THEN Append(steers, [agent |-> currentRole.id,
                                         role |-> "user",
                                         label |-> interventionTypeText(type),
                                         content |-> content])
                    ELSE steers

\* a call of intervene(type, content)
Intervene ==
    /\ calls < MaxCalls
    /\ \E type \in InterventionTypes : intervene(type, "content")
    /\ calls' = calls + 1
    /\ UNCHANGED <<agents, gen, yielded, prompts, clock, terminateCalls>>
    /\ UNCHANGED <<councilVars, speakerVars, consensusVars, anonymityVars, endpointVars>>

\* a bug: terminating a terminated discussion pauses it
terminate_Pause(st, now) ==
    IF st.status = "terminated"
    THEN [st EXCEPT !.status = "paused"]
    ELSE [st EXCEPT !.status = "terminated", !.completedAt = now]

\* what terminate() does to the state
terminate(st, now) == [st EXCEPT !.status = "terminated", !.completedAt = now]

\* terminate(); aborting the agents ends an invocation in flight, which
\* then returns or fails
Terminate ==
    /\ calls < MaxCalls
    /\ \E now \in Now(clock) :
         /\ state' = terminate(state, now)
         /\ clock' = now
    /\ terminateCalls' = terminateCalls + 1
    /\ calls' = calls + 1
    /\ UNCHANGED <<agents, gen, yielded, prompts, steers>>
    /\ UNCHANGED <<councilVars, speakerVars, consensusVars, anonymityVars, endpointVars>>

\* addMessage(message)
AddMessage ==
    /\ calls < MaxCalls
    /\ \E message \in AddedMessages :
         state' = [state EXCEPT !.messages = Append(@, message)]
    /\ calls' = calls + 1
    /\ UNCHANGED <<agents, gen, yielded, prompts, steers, clock, terminateCalls>>
    /\ UNCHANGED <<councilVars, speakerVars, consensusVars, anonymityVars, endpointVars>>

\* cleanup()
Cleanup ==
    /\ calls < MaxCalls
    /\ agents' = {}
    /\ calls' = calls + 1
    /\ UNCHANGED <<state, gen, yielded, prompts, steers, clock, terminateCalls>>
    /\ UNCHANGED <<councilVars, speakerVars, consensusVars, anonymityVars, endpointVars>>

NextDiscussion ==
    \/ PullFirst
    \/ PullAfterDiscussionStart
    \/ PullAfterRoundStart
    \/ PromptReturns
    \/ PromptFails
    \/ PullAfterError
    \/ PullAfterRoundComplete
    \/ PullAfterBreak
    \/ Intervene
    \/ Terminate
    \/ AddMessage
    \/ Cleanup

SpecDiscussion == InitDiscussion /\ [][NextDiscussion]_vars

\* the consumer keeps pulling: a next() that can run does run
ConsumerPulls ==
    /\ WF_vars(PullFirst)
    /\ WF_vars(PullAfterDiscussionStart)
    /\ WF_vars(PullAfterRoundStart)
    /\ WF_vars(PullAfterError)
    /\ WF_vars(PullAfterRoundComplete)
    /\ WF_vars(PullAfterBreak)

\* every invocation of a model returns or fails
InvocationsSettle == WF_vars(PromptReturns \/ PromptFails)

SpecDiscussionFair == SpecDiscussion /\ ConsumerPulls /\ InvocationsSettle

(***************************************************************************)
(* Properties of the orchestrator (SpecDiscussion).                        *)
(***************************************************************************)
\* the sequence of start() has been consumed to its end
FullyConsumed == gen.pc = "done"

EventsOfType(type) == SelectSeq(yielded, LAMBDA e : e.type = type)

\* no terminate(), every role still has its agent, no consensus detected
Undisturbed ==
    /\ terminateCalls = 0
    /\ agents = initializeAgents(state.config.roles)
    /\ ~state.consensusDetected

\* maxRounds rounds, each of one round_start per role in configuration order
ExpectedRoundStarts ==
    LET roles == state.config.roles
    IN [k \in 1..(state.config.maxRounds * Len(roles)) |->
           DiscussionEvent("round_start", ((k - 1) \div Len(roles)) + 1,
                           roles[((k - 1) % Len(roles)) + 1].id, "", "")]

C13_TerminateIsIdempotent ==
    terminateCalls >= 1 => state.status = "terminated"

C13_Witness ==
    /\ terminateCalls = 2
    /\ state.status = "terminated"

\* C14: once the status is completed or terminated, no step of start(), no
\* intervene and no terminate changes it
C14_TerminalStatusIsFinal ==
    [][state.status \in {"completed", "terminated"} =>
           state'.status = state.status]_vars

\* C32: a call of terminate() on a discussion that terminate() was already
\* called on leaves the whole DiscussionState as it was, completedAt included
C32_SecondTerminateChangesNothing ==
    [][(terminateCalls >= 1 /\ terminateCalls' = terminateCalls + 1) =>
           state' = state]_vars

\* C33: in every state of the orchestrator 0 <= currentSpeakerIndex < number
\* of roles and 1 <= currentRound <= maxRounds + 1
C33_IndexAndRoundInRange ==
    /\ state.currentSpeakerIndex >= 0
    /\ state.currentSpeakerIndex < Len(state.config.roles)
    /\ state.currentRound >= 1
    /\ state.currentRound <= state.config.maxRounds + 1

\* the last round of a two-role discussion was completed after an
\* intervention, and terminate() was called
C33_Witness ==
    /\ Len(state.config.roles) = 2
    /\ state.config.maxRounds >= 1
    /\ state.currentRound = state.config.maxRounds + 1
    /\ state.currentSpeakerIndex = 0
    /\ Len(state.userInterventions) >= 1
    /\ terminateCalls >= 1

\* the places of the events of a type in the sequence start() has yielded
PlacesOf(type) == {i \in 1..Len(yielded) : yielded[i].type = type}

LastRole == state.config.roles[Len(state.config.roles)].id

\* the event at k is the round_start of the last role and only error events
\* lie between k and i
TurnOfLastRoleEndsAt(k, i) ==
    /\ k < i
    /\ yielded[k].type = "round_start"
    /\ yielded[k].speakerId = LastRole
    /\ \A m \in (k + 1)..(i - 1) : yielded[m].type = "error"

\* C34: round_complete(r) is yielded at most once, and right after the turn
\* of the last role in round r (after its round_start and the error of its
\* invocation, if it failed); once that turn has been followed by an event,
\* round_complete(r) has been yielded; a round_start of round r+1 comes after
\* round_complete(r); the rounds of successive round_start events never
\* decrease
C34_RoundCompleteOncePerRound ==
    /\ \A i, j \in PlacesOf("round_complete") :
          yielded[i].round = yielded[j].round => i = j
    /\ \A i \in PlacesOf("round_complete") :
          \E k \in PlacesOf("round_start") :
              /\ yielded[k].round = yielded[i].round
              /\ TurnOfLastRoleEndsAt(k, i)
    /\ \A k \in PlacesOf("round_start") :
          (/\ yielded[k].speakerId = LastRole
           /\ \E m \in (k + 1)..Len(yielded) : yielded[m].type # "error") =>
              \E i \in PlacesOf("round_complete") :
                  /\ yielded[i].round = yielded[k].round
                  /\ TurnOfLastRoleEndsAt(k, i)
    /\ \A j \in PlacesOf("round_start") :
          yielded[j].round > 1 =>
              \E i \in PlacesOf("round_complete") :
                  i < j /\ yielded[i].round = yielded[j].round - 1
    /\ \A i, j \in PlacesOf("round_start") :
          i < j => yielded[i].round <= yielded[j].round

\* two rounds of two roles were completed, one of the invocations failed
C34_Witness ==
    /\ Len(state.config.roles) = 2
    /\ Cardinality(PlacesOf("round_complete")) = 2
    /\ Failures > 0

\* C35: when the sequence of start() has ended the status is completed or
\* terminated
C35_EndedSequenceIsTerminal ==
    gen.pc = "done" => state.status \in {"completed", "terminated"}

\* every role of the configuration has its agent
AllRolesHaveAgent ==
    \A i \in 1..Len(state.config.roles) : state.config.roles[i].id \in agents

\* C40: while every role has its agent, a sequence that is pulled and whose
\* invocations settle ends, after at most maxRounds * (number of roles)
\* turns and with the status completed or terminated
C40_PulledSequenceEnds ==
    /\ [](AllRolesHaveAgent =>
             /\ Len(prompts) <= state.config.maxRounds * Len(state.config.roles)
             /\ gen.pc = "done" => state.status \in {"completed", "terminated"})
    /\ <>(gen.pc = "done" \/ ~AllRolesHaveAgent)

\* two roles and two rounds run in full, one invocation failed, none disturbed
C40_Witness ==
    /\ gen.pc = "done"
    /\ AllRolesHaveAgent
    /\ Len(state.config.roles) = 2
    /\ state.config.maxRounds = 2
    /\ Len(prompts) = 4
    /\ Failures = 1
    /\ state.status = "completed"

\* C19: no model invocation starts after a terminate() has returned
C19_NoInvocationAfterTerminate ==
    [][Len(prompts') > Len(prompts) => terminateCalls = 0]_vars

\* C20: a step that changes userInterventions appends exactly one
\* UserIntervention, whose insertedAt is the number of messages at the call,
\* and changes neither currentRound, currentSpeakerIndex, messages, status
\* nor the position of start() and the events it has yielded
C20_InterveneAppendsOnly ==
    [][state'.userInterventions # state.userInterventions =>
           /\ Len(state'.userInterventions) = Len(state.userInterventions) + 1
           /\ Front(state'.userInterventions) = state.userInterventions
           /\ Last(state'.userInterventions).insertedAt = Len(state.messages)
           /\ state'.currentRound = state.currentRound
           /\ state'.currentSpeakerIndex = state.currentSpeakerIndex
           /\ state'.messages = state.messages
           /\ state'.status = state.status
           /\ gen' = gen
           /\ yielded' = yielded
           /\ prompts' = prompts]_vars

\* an intervention made after a message was added, during a turn
C20_Witness ==
    /\ Len(state.userInterventions) = 1
    /\ state.userInterventions[1].insertedAt = 1
    /\ gen.pc = "prompt"

\* the invocation of a turn returns without an error
TurnSucceeds == gen.pc = "prompt" /\ gen'.pc \notin {"prompt", "error"}

\* C24: the step of start() in which the invocation of a turn returns appends
\* exactly one DiscussionMessage to messages, written by the role that spoke
C24_SuccessfulTurnAppendsMessage ==
    [][TurnSucceeds =>
           /\ Len(state'.messages) = Len(state.messages) + 1
           /\ Front(state'.messages) = state.messages
           /\ Last(state'.messages).speakerId = gen.speakerId]_vars

\* C25: while the status is completed or terminated no step records a
\* UserIntervention and no step steers an agent
C25_InterveneOnlyWhileRunning ==
    [][state.status \in {"completed", "terminated"} =>
           /\ state'.userInterventions = state.userInterventions
           /\ steers' = steers]_vars

MissingAgentError == DiscussionEvent("error", 0, Undefined, "", "Agent not found")

\* start() has yielded the error of a role without an agent
Halted == \E i \in 1..Len(yielded) : yielded[i] = MissingAgentError

\* a run of start() that comes to the turn of a role: every run from
\* discussion_start and round_complete, and a run after an invocation that
\* does not end a round
ReachesTurn ==
    /\ gen' # gen
    /\ \/ gen.pc \in {"discussion_start", "round_complete"}
       \/ /\ gen.pc \in {"prompt", "error"}
          /\ gen'.pc # "error"
          /\ state'.currentSpeakerIndex # 0
    /\ state'.status = "running"
    /\ state'.currentRound <= state'.config.maxRounds
    /\ ~checkConsensus(state')

\* C26: a run of start() that comes to the turn of a role without an agent
\* yields the error event and starts no invocation; after that error start()
\* yields no event and starts no invocation
C26_MissingAgentHalts ==
    [][/\ (/\ ReachesTurn
           /\ state'.config.roles[state'.currentSpeakerIndex + 1].id \notin agents') =>
              /\ yielded' = Append(yielded, MissingAgentError)
              /\ Len(prompts') = Len(prompts)
       /\ Halted =>
              /\ yielded' = yielded
              /\ Len(prompts') = Len(prompts)]_vars

\* start() has ended on a missing agent after a turn was made
C26_Witness ==
    /\ Halted
    /\ gen.pc = "done"
    /\ Len(prompts) >= 1

\* C27: the step in which the invocation of a turn fails yields an error
\* event and leaves messages alone; the next run of start() leaves messages
\* alone, starts no invocation for the same turn and moves currentSpeakerIndex
\* on by one modulo the number of roles; every invocation is that of the role
\* at currentSpeakerIndex
C27_FailedTurnIsSkipped ==
    [][/\ (gen.pc = "prompt" /\ gen'.pc = "error") =>
              /\ yielded' = Append(yielded, DiscussionEvent("error", 0, Undefined, "",
                                                            "invocation failed"))
              /\ state'.messages = state.messages
       /\ (gen.pc = "error" /\ gen' # gen) =>
              /\ state'.messages = state.messages
              /\ Len(prompts') = Len(prompts)
              /\ state'.currentSpeakerIndex =
                     (state.currentSpeakerIndex + 1) % Len(state.config.roles)
              /\ gen'.pc = "round_start" =>
                     gen'.speakerId =
                         state'.config.roles[state'.currentSpeakerIndex + 1].id
       /\ Len(prompts') > Len(prompts) =>
              Last(prompts').speakerId =
                  state.config.roles[state.currentSpeakerIndex + 1].id]_vars

\* the invocation of role-1 failed and the next turn went to role-2
C27_Witness ==
    \E i \in 1..Len(yielded) - 1 :
        /\ yielded[i].error = "invocation failed"
        /\ yielded[i + 1].type = "round_start"
        /\ yielded[i + 1].speakerId = "role-2"
        /\ Len(prompts) >= 2
        /\ Last(prompts).speakerId = "role-2"

\* the invocations start() has started that have neither returned nor failed
InFlight == {i \in 1..Len(prompts) : ~prompts[i].settled}

\* C28: at most one invocation is in flight, and an invocation starts only
\* when every earlier one has returned or failed
C28_OneInvocationInFlight ==
    /\ Cardinality(InFlight) <= 1
    /\ \A i \in InFlight : i = Len(prompts)

\* the second invocation of a run is in flight
C28_Witness ==
    /\ Len(prompts) >= 2
    /\ InFlight = {Len(prompts)}

(***************************************************************************)
(* app/api/discussions/[id]/stream/route.ts: POST starts a discussion and  *)
(* streams the events of start(), PATCH intervenes, DELETE terminates.     *)
(* One conversation id; the registry activeDiscussions is that of          *)
(* orchestrator.ts.  POST reads the conversation once and saves the object *)
(* it holds; PATCH and DELETE read the file again before they write.       *)
(* POST forwards each event start() yields as soon as it is yielded, so    *)
(* the events on the stream are those of start() followed by the events    *)
(* POST sends itself.                                                      *)
(***************************************************************************)
Orchestrator == "orchestrator"

\* a message of the stored conversation; status is that of discussion_state
StoredMessage(role, content, status) ==
    [role |-> role, content |-> content, status |-> status]

\* body.maxRounds || DEFAULT_MAX_ROUNDS: a maxRounds of 0 is not kept
RouteConfigs == {config \in Configs : config.maxRounds >= 1}

\* start() has not been called
NoGenerator == Suspended("no_generator", Undefined)

InitRoute ==
    /\ CouncilIdle
    /\ SpeakerIdle
    /\ ConsensusIdle
    /\ AnonymityIdle
    /\ \E config \in RouteConfigs : state = InitialState(config)
    /\ agents = {}
    /\ gen = NoGenerator
    /\ yielded = <<>>
    /\ prompts = <<>>
    /\ steers = <<>>
    /\ clock = 0
    /\ terminateCalls = 0
    /\ calls = 0
    /\ route = "request"
    /\ activeDiscussions = {}
    /\ conversationFile = <<>>
    /\ conversation = <<>>
    /\ closing = <<>>
    /\ RoundtableIdle
    /\ RegistryIdle

\* removeDiscussion(id): cleanup() of the orchestrator the registry holds,
\* then delete the entry
removeDiscussion ==
    /\ agents' = IF Orchestrator \in activeDiscussions THEN {} ELSE agents
    /\ activeDiscussions' = {}

\* POST up to the creation of the stream: the orchestrator is created and
\* registered, the topic is pushed and the conversation saved
Post ==
    /\ route = "request"
    /\ agents' = initializeAgents(state.config.roles)
    /\ activeDiscussions' = {Orchestrator}
    /\ conversation' = Append(conversationFile, StoredMessage("user", "topic", Undefined))
    /\ \E outcome \in StoreOutcomes :
         IF outcome = "returns"
         THEN /\ conversationFile' = conversation'
              /\ gen' = NotStarted
              /\ route' = "streaming"
         ELSE /\ conversationFile' = conversationFile
              /\ gen' = gen
              /\ route' = "failed"
    /\ UNCHANGED <<state, yielded, prompts, steers, clock, terminateCalls, calls, closing>>
    /\ UNCHANGED <<councilVars, speakerVars, consensusVars, anonymityVars, roundtableVars,
                   registryVars>>

\* POST after the loop over start(): the final state is pushed and saved, the
\* discussion removed and discussion_complete sent with the status as its
\* reason; an exception of saveConversation is caught and error is sent
StreamEnds ==
    /\ route = "streaming"
    /\ gen.pc = "done"
    /\ conversation' = Append(conversation,
                              StoredMessage("assistant", "Discussion completed",
                                            state.status))
    /\ \E outcome \in StoreOutcomes :
         IF outcome = "returns"
         THEN /\ conversationFile' = conversation'
              /\ removeDiscussion
              /\ closing' = <<DiscussionEvent("discussion_complete", 0, Undefined,
                                              state.status, "")>>
         ELSE /\ conversationFile' = conversationFile
              /\ UNCHANGED <<agents, activeDiscussions>>
              /\ closing' = <<DiscussionEvent("error", 0, Undefined, "", "save failed")>>
    /\ route' = "closed"
    /\ UNCHANGED <<state, gen, yielded, prompts, steers, clock, terminateCalls, calls>>
    /\ UNCHANGED <<councilVars, speakerVars, consensusVars, anonymityVars, roundtableVars,
                   registryVars>>

\* PATCH with a content: 404 without an orchestrator in the registry, else
\* intervene and push the intervention onto the stored conversation
Patch ==
    /\ calls < MaxCalls
    /\ activeDiscussions # {}
    /\ \E type \in InterventionTypes : intervene(type, "content")
    /\ conversationFile' = Append(conversationFile,
                                  StoredMessage("user", "content", Undefined))
    /\ calls' = calls + 1
    /\ UNCHANGED <<agents, gen, yielded, prompts, clock, terminateCalls>>
    /\ UNCHANGED <<route, activeDiscussions, conversation, closing>>
    /\ UNCHANGED <<councilVars, speakerVars, consensusVars, anonymityVars, roundtableVars,
                   registryVars>>

\* DELETE: 404 without an orchestrator in the registry, else terminate(),
\* removeDiscussion and push the note onto the stored conversation
Delete ==
    /\ calls < MaxCalls
    /\ activeDiscussions # {}
    /\ \E now \in Now(clock) :
         /\ state' = terminate(state, now)
         /\ clock' = now
    /\ removeDiscussion
    /\ conversationFile' = Append(conversationFile,
                                  StoredMessage("system", "Discussion terminated by user",
                                                Undefined))
    /\ terminateCalls' = terminateCalls + 1
    /\ calls' = calls + 1
    /\ UNCHANGED <<gen, yielded, prompts, steers>>
    /\ UNCHANGED <<route, conversation, closing>>
    /\ UNCHANGED <<councilVars, speakerVars, consensusVars, anonymityVars, roundtableVars,
                   registryVars>>

NextRoute ==
    \/ Post
    \/ PullFirst
    \/ PullAfterDiscussionStart
    \/ PullAfterRoundStart
    \/ PromptReturns
    \/ PromptFails
    \/ PullAfterError
    \/ PullAfterRoundComplete
    \/ PullAfterBreak
    \/ StreamEnds
    \/ Patch
    \/ Delete

SpecRoute == InitRoute /\ [][NextRoute]_vars

(***************************************************************************)
(* Several discussions started for one conversation id: the registry of    *)
(* orchestrator.ts with POST and DELETE of the discussion endpoint.  Of    *)
(* an orchestrator only what the registry acts on is kept: its status,     *)
(* whether it still holds its agents, and its stream.  start() is reduced  *)
(* to its ends: the head of the loop completes a running discussion, and   *)
(* the sequence is over once the status is not running or the agent of the *)
(* current role is gone.                                                   *)
(***************************************************************************)
MaxPosts == 3           \* most discussions started for the conversation id

\* new DiscussionOrchestrator(config), with the stream POST opens for it;
\* saved is the status of the final state POST has saved, "" before
NewOrchestrator ==
    [status |-> "running", agents |-> TRUE, stream |-> "open", saved |-> ""]

InitRegistry ==
    /\ CouncilIdle
    /\ SpeakerIdle
    /\ DiscussionIdle
    /\ ConsensusIdle
    /\ AnonymityIdle
    /\ RouteIdle
    /\ RoundtableIdle
    /\ orchestrators = <<>>

\* removeDiscussion(id) on the orchestrators: cleanup() of the one the
\* registry holds for the id
removeDiscussionOf(os, registry) ==
    [o \in 1..Len(os) |-> IF o \in registry THEN [os[o] EXCEPT !.agents = FALSE]
                          ELSE os[o]]

\* POST: getOrCreateDiscussion(id, config) creates an orchestrator and sets
\* it as the entry of the id, whatever the entry was
RegistryPost ==
    /\ Len(orchestrators) < MaxPosts
    /\ orchestrators' = Append(orchestrators, NewOrchestrator)
    /\ activeDiscussions' = {Len(orchestrators) + 1}
    /\ UNCHANGED <<route, conversationFile, conversation, closing>>
    /\ UNCHANGED <<councilVars, speakerVars, discussionVars, consensusVars,
                   anonymityVars, roundtableVars>>

\* start() of an orchestrator finds currentRound > maxRounds or a consensus
RegistryCompletes ==
    /\ \E o \in 1..Len(orchestrators) :
         /\ orchestrators[o].stream = "open"
         /\ orchestrators[o].status = "running"
         /\ orchestrators[o].agents
         /\ orchestrators' = [orchestrators EXCEPT ![o].status = "completed"]
    /\ UNCHANGED routeVars
    /\ UNCHANGED <<councilVars, speakerVars, discussionVars, consensusVars,
                   anonymityVars, roundtableVars>>

\* POST after the loop over a start() that has ended: the final state is
\* saved, removeDiscussion(id), the stream closed; an exception of
\* saveConversation closes the stream without removeDiscussion
RegistryStreamEnds ==
    /\ \E o \in 1..Len(orchestrators), outcome \in StoreOutcomes :
         /\ orchestrators[o].stream = "open"
         /\ orchestrators[o].status # "running" \/ ~orchestrators[o].agents
         /\ IF outcome = "returns"
            THEN /\ orchestrators' =
                        removeDiscussionOf(
                            [orchestrators EXCEPT ![o].stream = "closed",
                                                  ![o].saved = orchestrators[o].status],
                            activeDiscussions)
                 /\ activeDiscussions' = {}
            ELSE /\ orchestrators' = [orchestrators EXCEPT ![o].stream = "closed"]
                 /\ activeDiscussions' = activeDiscussions
    /\ UNCHANGED <<route, conversationFile, conversation, closing>>
    /\ UNCHANGED <<councilVars, speakerVars, discussionVars, consensusVars,
                   anonymityVars, roundtableVars>>

\* DELETE: terminate() of the orchestrator the registry holds for the id,
\* then removeDiscussion(id)
RegistryDelete ==
    /\ activeDiscussions # {}
    /\ orchestrators' =
           removeDiscussionOf(
               [o \in 1..Len(orchestrators) |->
                   IF o \in activeDiscussions
                   THEN [orchestrators[o] EXCEPT !.status = "terminated"]
                   ELSE orchestrators[o]],
               activeDiscussions)
    /\ activeDiscussions' = {}
    /\ UNCHANGED <<route, conversationFile, conversation, closing>>
    /\ UNCHANGED <<councilVars, speakerVars, discussionVars, consensusVars,
                   anonymityVars, roundtableVars>>

NextRegistry ==
    \/ RegistryPost
    \/ RegistryCompletes
    \/ RegistryStreamEnds
    \/ RegistryDelete

SpecRegistry == InitRegistry /\ [][NextRegistry]_vars

\* C37: an orchestrator has lost its agents only if its own stream has
\* ended or it was terminated
C37_CleanupOnlyOfEndedOrTerminated ==
    \A o \in 1..Len(orchestrators) :
        ~orchestrators[o].agents =>
            \/ orchestrators[o].stream = "closed"
            \/ orchestrators[o].status = "terminated"

(***************************************************************************)
(* Properties of the discussion endpoint (SpecRoute).                      *)
(***************************************************************************)
\* the events delivered on the stream, in order
Delivered == yielded \o closing

DeliveredOfType(type) == SelectSeq(Delivered, LAMBDA e : e.type = type)

\* C22: every discussion_complete on the stream has reason max_rounds or
\* consensus, and the stream of a discussion that was terminated by the user
\* or ended on an error has no discussion_complete
C22_CompleteOnlyForMaxRoundsOrConsensus ==
    /\ \A i \in 1..Len(Delivered) :
          Delivered[i].type = "discussion_complete" =>
              Delivered[i].reason \in {"max_rounds", "consensus"}
    /\ (\/ state.status = "terminated"
        \/ Halted
        \/ route = "closed" /\ Last(Delivered).type = "error")
          => DeliveredOfType("discussion_complete") = <<>>

\* C23: once the stream is closed the registry holds no orchestrator for the
\* conversation id and the agents of the orchestrator are released
C23_ClosedStreamLeavesNoOrchestrator ==
    route = "closed" => activeDiscussions = {} /\ agents = {}

\* the stream has saved its final state: POST's saveConversation returned
FinalStateSaved ==
    /\ route = "streaming"
    /\ route' = "closed"
    /\ closing'[1].type = "discussion_complete"

\* C36: when the stream saves its final state, every message the stored
\* conversation held before (the interventions recorded by PATCH and the
\* note recorded by DELETE among them) is still in it, at its place
C36_SaveKeepsRecordedMessages ==
    [][FinalStateSaved =>
          /\ Len(conversationFile') >= Len(conversationFile)
          /\ \A i \in 1..Len(conversationFile) :
                conversationFile'[i] = conversationFile[i]]_vars

\* C38: the stream delivers at most one discussion_complete event
C38_AtMostOneDiscussionComplete ==
    Len(DeliveredOfType("discussion_complete")) <= 1

(***************************************************************************)
(* The roundtable branch of the streaming endpoint                         *)
(* (app/api/conversations/[id]/message/stream/route.ts) with               *)
(* runRoundtableTurn and formatHistoryForModel of lib/roundtable.ts.  The  *)
(* loop gives one turn per council model and awaits each turn; one action  *)
(* runs from the return of a turn to the call of the next.                 *)
(***************************************************************************)
\* a turn that succeeded; id and timestamp are not modelled
RoundtableTurn(speaker, content) ==
    [role |-> "assistant", model_id |-> speaker.id, model_name |-> speaker.name,
     content |-> content]

\* accumulatedTurns.map(t => ({ role, model_id, model_name, content }))
turnsAsMessages(turns) ==
    [i \in 1..Len(turns) |->
        [role |-> "assistant", model_id |-> turns[i].model_id,
         model_name |-> turns[i].model_name, content |-> turns[i].content]]

\* the message saveRoundtableMessage pushes
RoundtableMessage(turns) == [role |-> "assistant", roundtable_turns |-> turns]

\* msg.f is a non-empty string
Truthy(msg, f) == f \in DOMAIN msg /\ msg[f] # ""

Named(name, content) ==
    [role |-> "assistant", content |-> "[" \o name \o "]: " \o content]

\* what formatHistoryForModel pushes for one message
FormatMessage(msg) ==
    IF msg.role = "user"
    THEN <<[role |-> "user",
            content |-> IF "content" \in DOMAIN msg THEN msg.content ELSE ""]>>
    ELSE IF Truthy(msg, "model_name") /\ Truthy(msg, "content")
    THEN <<Named(msg.model_name, msg.content)>>
    ELSE IF "roundtable_turns" \in DOMAIN msg
    THEN [i \in 1..Len(msg.roundtable_turns) |->
             Named(msg.roundtable_turns[i].model_name, msg.roundtable_turns[i].content)]
    ELSE IF Truthy(msg, "content")
    THEN <<[role |-> msg.role, content |-> msg.content]>>
    ELSE <<>>

RECURSIVE formatHistoryForModel(_)
formatHistoryForModel(messages) ==
    IF messages = <<>> THEN <<>>
    ELSE FormatMessage(Head(messages)) \o formatHistoryForModel(Tail(messages))

\* a call of runRoundtableTurn: its history argument and the messages it
\* gives to queryModel; settled once the call has returned
RoundtableCall(speaker, history) ==
    [modelId |-> speaker.id, history |-> history,
     formattedHistory |-> formatHistoryForModel(history), settled |-> FALSE]

\* what queryModel answers to a turn
TurnResponses == {NullAnswer, Response(""), Response("reply")}

\* response?.content || null, null as ""
runRoundtableTurn(response) ==
    IF response.ok /\ response.content # "" THEN response.content ELSE ""

\* the conversations a roundtable request can find stored
StoredConversations ==
    {<<>>,
     <<UserMessage, AssistantMessage(<<>>, <<>>, NoStage3, EmptyMap)>>,
     <<UserMessage, RoundtableMessage(<<RoundtableTurn(Participant("model-1"), "reply")>>)>>}

InitRoundtable ==
    /\ caller = "roundtable"
    /\ pc = "start"
    /\ councilModels \in CouncilLists
    /\ responses1 = <<>>
    /\ stage1Results = <<>>
    /\ labelToModel = EmptyMap
    /\ stage2Results = <<>>
    /\ aggregateRankings = <<>>
    /\ stage3Result = NoStage3
    /\ returned = FALSE
    /\ events = <<>>
    /\ storedMessages \in StoredConversations
    /\ titlePromise = "none"
    /\ invocations = NoInvocations
    /\ NonCouncilIdle

\* addUserMessage, the title generation, roundtable_start, the participants,
\* and the loop up to the call of the first turn
RoundtableStart ==
    /\ caller = "roundtable" /\ pc = "start"
    /\ \E addUserMessage \in StoreOutcomes :
         IF addUserMessage = "throws"
         THEN /\ events' = catchError(events)
              /\ pc' = "error"
              /\ UNCHANGED <<storedMessages, titlePromise, invocations, speakerVars,
                             turn, accumulatedTurns, turnCalls>>
         ELSE LET stored == Append(storedMessages, UserMessage)
                  ps == [i \in 1..Len(councilModels) |-> Participant(councilModels[i])]
                  speaker == getNextSpeaker(ps, Undefined)
              IN /\ storedMessages' = stored
                 /\ titlePromise' = IF Len(storedMessages) = 0 THEN "pending" ELSE "none"
                 /\ invocations' = [invocations EXCEPT
                                       !.title = @ + (IF Len(storedMessages) = 0
                                                      THEN 1 ELSE 0)]
                 /\ participants' = ps
                 /\ lastModelId' = Undefined
                 /\ nextSpeaker' = speaker
                 /\ turn' = 0
                 /\ accumulatedTurns' = <<>>
                 /\ events' = events \o
                        <<Event("roundtable_start", <<>>),
                          Event("roundtable_turn_start",
                                [model_id |-> speaker.id, model_name |-> speaker.name])>>
                 /\ turnCalls' = Append(turnCalls, RoundtableCall(speaker, stored))
                 /\ pc' = "turn"
    /\ UNCHANGED <<caller, councilModels, responses1, stage1Results, labelToModel,
                   stage2Results, aggregateRankings, stage3Result, returned>>
    /\ UNCHANGED <<discussionVars, consensusVars, anonymityVars, routeVars, registryVars,
                   request>>

\* lastModelId after a turn: the speaker's id when the turn has a content
lastSpeaker(turnContent, speaker, last) ==
    IF turnContent # "" THEN speaker.id ELSE last

\* a bug: the turn is pushed whether it has a content or not
accumulate_Always(turns, turnContent, speaker) ==
    Append(turns, RoundtableTurn(speaker, turnContent))

\* accumulatedTurns after a turn
accumulate(turns, turnContent, speaker) ==
    IF turnContent # "" THEN Append(turns, RoundtableTurn(speaker, turnContent))
    ELSE turns

\* a turn returns: roundtable_turn_complete or roundtable_turn_error, then the
\* call of the next turn or, after the last turn, saveRoundtableMessage,
\* roundtable_complete, the title when it was started, complete; when
\* saveRoundtableMessage or updateConversationTitle throws, the error event
RoundtableTurnReturns ==
    /\ caller = "roundtable" /\ pc = "turn"
    /\ \E response \in TurnResponses, saveRoundtableMessage \in StoreOutcomes,
          updateConversationTitle \in StoreOutcomes :
         LET turnContent == runRoundtableTurn(response)
             speaker == nextSpeaker
             turns == accumulate(accumulatedTurns, turnContent, speaker)
             last == lastSpeaker(turnContent, speaker, lastModelId)
             sent == Append(events,
                        IF turnContent # ""
                        THEN Event("roundtable_turn_complete",
                                   [model_id |-> speaker.id, model_name |-> speaker.name,
                                    data |-> turnContent])
                        ELSE Event("roundtable_turn_error",
                                   [model_id |-> speaker.id,
                                    message |-> "Model failed to respond"]))
             next == getNextSpeaker(participants, last)
         IN /\ accumulatedTurns' = turns
            /\ lastModelId' = last
            /\ turn' = turn + 1
            /\ IF turn + 1 < Len(councilModels)
               THEN /\ nextSpeaker' = next
                    /\ events' = Append(sent,
                           Event("roundtable_turn_start",
                                 [model_id |-> next.id, model_name |-> next.name]))
                    /\ turnCalls' = Append(Settle(turnCalls),
                           RoundtableCall(next, storedMessages \o turnsAsMessages(turns)))
                    /\ pc' = "turn"
                    /\ UNCHANGED <<storedMessages, titlePromise>>
               ELSE /\ nextSpeaker' = nextSpeaker
                    /\ turnCalls' = Settle(turnCalls)
                    /\ IF saveRoundtableMessage = "throws"
                       THEN /\ events' = catchError(sent)
                            /\ pc' = "error"
                            /\ UNCHANGED <<storedMessages, titlePromise>>
                       ELSE /\ storedMessages' =
                                   Append(storedMessages, RoundtableMessage(turns))
                            /\ titlePromise' = IF titlePromise = "pending" THEN "done"
                                               ELSE titlePromise
                            /\ IF titlePromise = "pending" /\ updateConversationTitle = "throws"
                               THEN /\ events' = catchError(
                                           Append(sent, Event("roundtable_complete", <<>>)))
                                    /\ pc' = "error"
                               ELSE /\ events' = sent \o
                                           <<Event("roundtable_complete", <<>>)>> \o
                                           (IF titlePromise = "pending"
                                            THEN <<Event("title_complete", <<>>)>>
                                            ELSE <<>>) \o
                                           <<Event("complete", <<>>)>>
                                    /\ pc' = "done"
    /\ UNCHANGED <<caller, councilModels, responses1, stage1Results, labelToModel,
                   stage2Results, aggregateRankings, stage3Result, returned,
                   invocations, participants>>
    /\ UNCHANGED <<discussionVars, consensusVars, anonymityVars, routeVars, registryVars,
                   request>>

NextRoundtable ==
    \/ RoundtableStart
    \/ RoundtableTurnReturns

SpecRoundtable == InitRoundtable /\ [][NextRoundtable]_vars

(***************************************************************************)
(* The councilModels of a request, from the request to the first dispatch: *)
(* sanitizeCouncilModelsInput of the streaming endpoint and                *)
(* sanitizeCouncilModels of runFullCouncil, followed by the council or the *)
(* roundtable run.  A model id of a request is a non-empty string (the     *)
(* schema asks for min(1)): an id, an id between spaces, or spaces only.   *)
(***************************************************************************)
MaxRaw == 1             \* longest councilModels of a request

Blank == "  "

Padded(id) == " " \o id \o " "

RawIds == ModelIds \cup {Blank, Padded("model-1")}

\* String.prototype.trim on the ids of a request
Trim(str) ==
    IF str = Blank THEN ""
    ELSE IF \E id \in ModelIds : str = Padded(id)
    THEN CHOOSE id \in ModelIds : str = Padded(id)
    ELSE str

\* the council models of the process configuration (lib/config.ts)
RESOLVED_COUNCIL_MODEL_CONFIGS == <<"model-1">>

Requests ==
    {NoRequest} \cup {[supplied |-> TRUE, list |-> l] : l \in SeqsUpTo(RawIds, MaxRaw)}

\* a bug: the ids are neither trimmed nor filtered
sanitizeCouncilModelsInput_NoTrim(input) ==
    IF input.supplied /\ Len(input.list) > 0 THEN input.list
    ELSE RESOLVED_COUNCIL_MODEL_CONFIGS

\* sanitizeCouncilModelsInput(input); <<>> stands for the Error it throws
sanitizeCouncilModelsInput(input) ==
    LET source == IF input.supplied /\ Len(input.list) > 0 THEN input.list
                  ELSE RESOLVED_COUNCIL_MODEL_CONFIGS
        trimmed == [i \in 1..Len(source) |-> Trim(source[i])]
    IN SelectSeq(trimmed, LAMBDA model : model # "")

\* sanitizeCouncilModels(customModels) of runFullCouncil; <<>> stands for the
\* Error it throws
sanitizeCouncilModels(customModels) ==
    LET source == IF customModels.supplied /\ Len(customModels.list) > 0
                  THEN customModels.list
                  ELSE RESOLVED_COUNCIL_MODEL_CONFIGS
        trimmed == [i \in 1..Len(source) |-> Trim(source[i])]
    IN SelectSeq(trimmed, LAMBDA model : model # "")

\* the conversations a request can find stored
InitialStores == {<<>>, <<UserMessage, AssistantMessage(<<>>, <<>>, NoStage3, EmptyMap)>>}

InitRequest ==
    /\ caller \in {"runFullCouncil", "stream", "roundtable"}
    /\ pc = "request"
    /\ councilModels = <<>>
    /\ responses1 = <<>>
    /\ stage1Results = <<>>
    /\ labelToModel = EmptyMap
    /\ stage2Results = <<>>
    /\ aggregateRankings = <<>>
    /\ stage3Result = NoStage3
    /\ returned = FALSE
    /\ events = <<>>
    /\ storedMessages \in InitialStores
    /\ titlePromise = "none"
    /\ invocations = NoInvocations
    /\ SpeakerIdle
    /\ DiscussionIdle
    /\ ConsensusIdle
    /\ AnonymityIdle
    /\ RouteIdle
    /\ RegistryIdle
    /\ request \in Requests
    /\ turn = 0
    /\ accumulatedTurns = <<>>
    /\ turnCalls = <<>>

\* the first statement of runFullCouncil and of the try of POST: the list is
\* sanitized; the Error rejects the promise of runFullCouncil and makes POST
\* answer 500 before the stream is created
SanitizeRequest ==
    /\ pc = "request"
    /\ LET active == IF caller = "runFullCouncil"
                     THEN sanitizeCouncilModels(request)
                     ELSE sanitizeCouncilModelsInput(request)
       IN IF active = <<>>
          THEN /\ pc' = "rejected"
               /\ councilModels' = councilModels
          ELSE /\ pc' = "start"
               /\ councilModels' = active
    /\ UNCHANGED <<caller, responses1, stage1Results, labelToModel, stage2Results,
                   aggregateRankings, stage3Result, returned, events, storedMessages,
                   titlePromise, invocations>>
    /\ UNCHANGED nonCouncilVars

NextRequest ==
    \/ SanitizeRequest
    \/ NextCouncil
    \/ NextRoundtable

SpecRequest == InitRequest /\ [][NextRequest]_vars

(***************************************************************************)
(* Properties of the handling of a request (SpecRequest).                  *)
(***************************************************************************)
\* the list the run is made with: the supplied one unless it is absent or empty
Source(req) ==
    IF req.supplied /\ req.list # <<>> THEN req.list ELSE RESOLVED_COUNCIL_MODEL_CONFIGS

AllBlank(list) == \A i \in 1..Len(list) : Trim(list[i]) = ""

\* no invocation was dispatched, no event sent and the store not written
Untouched ==
    /\ invocations = NoInvocations
    /\ turnCalls = <<>>
    /\ events = <<>>
    /\ titlePromise = "none"
    /\ storedMessages \in InitialStores

\* C21 as stated: a request that supplies an empty participant list is
\* rejected, with no invocation dispatched and the store not written
C21_EmptyListRejected ==
    (pc # "request" /\ request.supplied /\ request.list = <<>>) =>
        pc = "rejected" /\ Untouched

\* C21, amended: a request is rejected, with no invocation dispatched and the
\* store not written, exactly when the list it is run with has no id left
\* once blank ids are dropped; that list is the supplied one, or the list of
\* the process configuration when none or an empty one is supplied, so a
\* request with an empty list runs with the configured models
C21_BlankListRejected ==
    pc # "request" =>
        /\ AllBlank(Source(request)) => pc = "rejected" /\ Untouched
        /\ ~AllBlank(Source(request)) => pc # "rejected" /\ councilModels # <<>>
        /\ (request.list = <<>> /\ pc # "rejected") =>
              councilModels = RESOLVED_COUNCIL_MODEL_CONFIGS

\* a roundtable request whose only model id is blank was rejected
C21_Witness ==
    /\ caller = "roundtable"
    /\ request = [supplied |-> TRUE, list |-> <<Blank>>]
    /\ pc = "rejected"
    /\ Untouched

(***************************************************************************)
(* Properties of a roundtable run (SpecRoundtable).                        *)
(***************************************************************************)
EventsNamed(sent, type) == SelectSeq(sent, LAMBDA e : e.type = type)

\* the turns the stream has reported as complete, in the order of their
\* events, as the messages a later turn is given
CompletedTurns(sent) ==
    LET done == EventsNamed(sent, "roundtable_turn_complete")
    IN [i \in 1..Len(done) |->
           [role |-> "assistant", model_id |-> done[i].data.model_id,
            model_name |-> done[i].data.model_name, content |-> done[i].data.data]]

\* C29: a turn is called only when every earlier turn of the run has
\* returned, and its history is the stored conversation followed by the
\* turns reported complete before it, in the order of their completion
C29_TurnsInSequenceOnFullHistory ==
    [][Len(turnCalls') > Len(turnCalls) =>
           /\ Len(turnCalls') = Len(turnCalls) + 1
           /\ \A i \in 1..Len(turnCalls) : turnCalls'[i].settled
           /\ Last(turnCalls').history = storedMessages' \o CompletedTurns(events')]_vars

\* the second turn of a run on a stored conversation, after a first turn
\* that succeeded
C29_Witness ==
    /\ pc = "turn"
    /\ Len(turnCalls) = 2
    /\ Len(storedMessages) = 3
    /\ Len(accumulatedTurns) = 1
    /\ Len(turnCalls[2].history) = 4
    /\ turnCalls[1].settled /\ ~turnCalls[2].settled

\* C30: the k-th roundtable_turn_start of a run is that of the k-th
\* participant in the configured order, whatever turns have failed, so that
\* a finished run has one turn_start per participant
C30_EveryParticipantGetsItsTurn ==
    LET starts == EventsNamed(events, "roundtable_turn_start")
    IN /\ \A k \in 1..Len(starts) :
             /\ k <= Len(councilModels)
             /\ starts[k].data.model_id = councilModels[k]
       /\ caller = "roundtable" /\ pc = "done" => Len(starts) = Len(councilModels)

(***************************************************************************)
(* Order of the events of a council run of the streaming endpoint (Spec).  *)
(***************************************************************************)
CouncilOrder ==
    <<"stage1_start", "stage1_complete", "stage2_start", "stage2_complete",
      "stage3_start", "stage3_complete", "title_complete", "complete">>

EventTypes == [i \in 1..Len(events) |-> events[i].type]

\* s is a subsequence of t: the elements of s occur in t in the same order
RECURSIVE IsSubsequence(_, _)
IsSubsequence(s, t) ==
    IF s = <<>> THEN TRUE
    ELSE IF t = <<>> THEN FALSE
    ELSE IF Head(s) = Head(t) THEN IsSubsequence(Tail(s), Tail(t))
    ELSE IsSubsequence(s, Tail(t))

WithoutError == SelectSeq(EventTypes, LAMBDA t : t # "error")

\* C15: the events of a council run on the stream are stage1_start,
\* stage1_complete, stage2_start, stage2_complete, stage3_start,
\* stage3_complete, complete, in this order without a gap and each at most
\* once (title_complete, sent for a first message, sits right before
\* complete); an error event is the last event and no complete comes with it
C15_CouncilEventOrder ==
    caller = "stream" =>
        /\ IsSubsequence(WithoutError, CouncilOrder)
        /\ \A i \in 1..Len(WithoutError) :
              \E k \in {i, i + 1} \cap (1..Len(CouncilOrder)) :
                  WithoutError[i] = CouncilOrder[k]
        /\ \A i \in 1..Len(events) :
              events[i].type = "error" =>
                  /\ i = Len(events)
                  /\ \A j \in 1..Len(events) : events[j].type # "complete"

\* a run that ended with an error after stage3_complete was sent
C15_Witness ==
    /\ caller = "stream"
    /\ pc = "error"
    /\ Len(events) = 7
    /\ events[6].type = "stage3_complete"
    /\ events[7].type = "error"

(***************************************************************************)
(* The ranking prompt of stage2CollectRankings, for two calls with the     *)
(* same question and the same response texts in the same order, written    *)
(* by any models.                                                          *)
(***************************************************************************)
UserQueries == {"question-1", "question-2"}

\* parts.join(separator)
RECURSIVE Join(_, _)
Join(parts, separator) ==
    IF Len(parts) = 0 THEN ""
    ELSE IF Len(parts) = 1 THEN parts[1]
    ELSE parts[1] \o separator \o Join(Tail(parts), separator)

\* a bug: the author of a response is named next to its label
responsesText_Named(results) ==
    Join([i \in 1..Len(results) |->
             ResponseLabel(i - 1) \o " (" \o results[i].model \o "):\n"
                 \o results[i].response],
         "\n\n")

\* stage1Results.map((result, i) => `Response ${labels[i]}:\n${result.response}`)
\*              .join('\n\n')
responsesText(results) ==
    Join([i \in 1..Len(results) |->
             ResponseLabel(i - 1) \o ":\n" \o results[i].response],
         "\n\n")

\* the prompt; the fixed text after the responses is left out
rankingPrompt(query, results) ==
    "You are evaluating different responses to the following question:\n\nQuestion: "
        \o query
        \o "\n\nHere are the responses from different models (anonymized):\n\n"
        \o responsesText(results)

\* const messages: Message[] = [{ role: 'user', content: rankingPrompt }]
RankingMessages(query, results) ==
    <<[role |-> "user", content |-> rankingPrompt(query, results)]>>

\* Stage-1 results: the responses in order, each written by a different model
Stage1ResultLists ==
    {r \in SeqsUpTo([model : ModelIds, response : {AnswerOf(i) : i \in 1..MaxCouncil}],
                    MaxCouncil) :
        /\ Len(r) > 0
        /\ \A i, j \in 1..Len(r) : r[i].model = r[j].model => i = j}

SameTexts(r1, r2) ==
    /\ Len(r1) = Len(r2)
    /\ \A i \in 1..Len(r1) : r1[i].response = r2[i].response

NotSent == <<>>

InitAnonymity ==
    /\ CouncilIdle
    /\ SpeakerIdle
    /\ DiscussionIdle
    /\ ConsensusIdle
    /\ EndpointIdle
    /\ \E query \in UserQueries, r1 \in Stage1ResultLists, r2 \in Stage1ResultLists :
         /\ SameTexts(r1, r2)
         /\ runs = <<[userQuery |-> query, stage1Results |-> r1],
                      [userQuery |-> query, stage1Results |-> r2]>>
    /\ rankingMessages = <<NotSent, NotSent>>

\* one of the two calls builds its prompt and dispatches it to the rankers
SendRankingMessages ==
    \E k \in 1..Len(runs) :
        /\ rankingMessages[k] = NotSent
        /\ rankingMessages' =
               [rankingMessages EXCEPT
                   ![k] = RankingMessages(runs[k].userQuery, runs[k].stage1Results)]
        /\ UNCHANGED <<councilVars, speakerVars, discussionVars, consensusVars, runs,
                     endpointVars>>

NextAnonymity == SendRankingMessages

SpecAnonymity == InitAnonymity /\ [][NextAnonymity]_vars

BothSent == \A k \in 1..Len(rankingMessages) : rankingMessages[k] # NotSent

\* C18: two calls with the same question and the same response texts in the
\* same order send the same ranking messages, whichever models wrote the
\* responses
C18_PromptIgnoresAuthors ==
    (Len(rankingMessages) = 2 /\ BothSent) => rankingMessages[1] = rankingMessages[2]

\* two calls with two responses each, no response written by the same model
C18_Witness ==
    /\ Len(rankingMessages) = 2 /\ BothSent
    /\ Len(runs[1].stage1Results) = 2
    /\ \A i \in 1..2 : runs[1].stage1Results[i].model # runs[2].stage1Results[i].model

====
